---------------------------- MODULE Spec2Model ----------------------------
(***************************************************************************)
(* Insider-threat detection backend: event queue, scoring worker, risk     *)
(* fusion, persistence, ingest and upload handlers, WebSocket broadcaster. *)
(*                                                                         *)
(* Numbers.  Component scores and confidences are fixed-point integers in  *)
(* thousandths (0..1000 stands for 0.0..1.0), fusion weights as well;     *)
(* multipliers are tenths, so a fused risk score is an integer in units of *)
(* 1/ONE with ONE = 10^7; the thresholds 0.8 / 0.6 / 0.4 become 8*10^6,    *)
(* 6*10^6 and 4*10^6.  Every stored risk_score is kept in that unit.       *)
(*                                                                         *)
(* Scheduling.  All coroutines run on one asyncio event loop, so a         *)
(* coroutine runs without interruption from one suspension to the next.    *)
(* The worker suspends in event_queue.get() on an empty queue and in       *)
(* websocket.send_json(); handlers suspend between the response and their  *)
(* background tasks and in the WebSocket accept / send / receive calls.    *)
(***************************************************************************)
EXTENDS Integers, Sequences, FiniteSets, TLC

(***************************************************************************)
(* Bounds of the model                                                     *)
(***************************************************************************)
MaxOffers == 2

MaxIngests == 1

MaxUploads == 2

MaxSeeds == 1

MaxAlertOps == 2

\* messages the clients send over their sockets in a run
MaxClientMessages == 2

MaxClock == 2

\* calls of compute_risk on the engine under test
MaxAssessments == 2

MaxSockets == 2

MaxBurst == 1001

MaxTakes == 2
MaxRegistrations == 1
MaxVerifications == 2
\* calls of the manager's broadcast_alert / broadcast_event / broadcast_system_status
MaxBroadcasts == 1

(***************************************************************************)
(* Program constants                                                       *)
(***************************************************************************)
ONE == 10000000

maxsize == 1000

NEAR_CAPACITY == 900

ALERT_THRESHOLD == 4000000

None == "None"

Actions == {"view", "download", "upload", "modify", "delete", "share"}

RiskLevels == {"critical", "high", "medium", "low"}

Min(a, b) == IF a <= b THEN a ELSE b

Max(a, b) == IF a >= b THEN a ELSE b

\* the department names and sensitivity levels that occur in requests, payloads
\* and rows, each with its str.upper() and its str.lower()
CaseForms ==
  { [forms |-> {"HR", "Hr", "hr"}, upper |-> "HR", lower |-> "hr"],
    [forms |-> {"FINANCE", "Finance", "finance"}, upper |-> "FINANCE", lower |-> "finance"],
    [forms |-> {"IT", "It", "it"}, upper |-> "IT", lower |-> "it"],
    [forms |-> {"LEGAL", "Legal", "legal"}, upper |-> "LEGAL", lower |-> "legal"],
    [forms |-> {"MARKETING", "Marketing", "marketing"}, upper |-> "MARKETING",
     lower |-> "marketing"],
    [forms |-> {"PUBLIC", "Public", "public"}, upper |-> "PUBLIC", lower |-> "public"],
    [forms |-> {"INTERNAL", "Internal", "internal"}, upper |-> "INTERNAL", lower |-> "internal"],
    [forms |-> {"CONFIDENTIAL", "Confidential", "confidential"}, upper |-> "CONFIDENTIAL",
     lower |-> "confidential"] }

\* str.lower()
Lower(d) ==
  IF \E f \in CaseForms : d \in f.forms
  THEN (CHOOSE f \in CaseForms : d \in f.forms).lower
  ELSE d

\* str.upper()
Upper(d) ==
  IF \E f \in CaseForms : d \in f.forms
  THEN (CHOOSE f \in CaseForms : d \in f.forms).upper
  ELSE d

(***************************************************************************)
(* Risk fusion (ml_engine/fusion/risk_engine.py)                           *)
(***************************************************************************)
ACTION_MULTIPLIERS(action) ==
  CASE action = "view" -> 10
    [] action = "download" -> 18
    [] action = "upload" -> 14
    [] action = "modify" -> 25
    [] action = "delete" -> 30
    [] action = "share" -> 20
    [] OTHER -> 10

CROSS_DEPT_ACTION_MULTIPLIERS(action) ==
  CASE action = "view" -> 13
    [] action = "download" -> 20
    [] action = "upload" -> 15
    [] action = "modify" -> 28
    [] action = "delete" -> 35
    [] action = "share" -> 22
    [] OTHER -> 15

TEMPORAL_MULTIPLIERS(is_after_hours, is_weekend) ==
  IF is_weekend THEN 15 ELSE IF is_after_hours THEN 13 ELSE 10

\* a minimum base risk that is the same for every action
cross_dept_base_risk_flat(action) == 1500

cross_dept_base_risk(action) ==
  CASE action = "view" -> 1500
    [] action = "download" -> 2500
    [] action = "upload" -> 2000
    [] action = "modify" -> 4500
    [] action = "delete" -> 5500
    [] action = "share" -> 3000
    [] OTHER -> 1500

\* weights in thousandths
DEFAULT_WEIGHTS == [behavior |-> 400, classification |-> 300, integrity |-> 300]

\* {k: v/total for k, v in weights.items()}: __init__ and update_weights divide
\* each weight by the sum of the weights
normalize_weights(weights) ==
  LET total == weights.behavior + weights.classification + weights.integrity
  IN  [behavior |-> (weights.behavior * 1000) \div total,
       classification |-> (weights.classification * 1000) \div total,
       integrity |-> (weights.integrity * 1000) \div total]

\* RISK_THRESHOLDS scanned in the order critical, high, medium, low
RiskLevelOf(final_score) ==
  IF final_score >= 8000000 THEN "critical"
  ELSE IF final_score >= 6000000 THEN "high"
  ELSE IF final_score >= 4000000 THEN "medium"
  ELSE "low"

RiskFactors(b, s, i, action, cross, after, weekend) ==
  (IF b > 500 THEN <<"anomalous_behavior">> ELSE <<>>)
  \o (IF s > 500 THEN <<"sensitive_document">> ELSE <<>>)
  \o (IF i > 0 THEN <<"tampering">> ELSE <<>>)
  \o (IF cross THEN <<"cross_department">> ELSE <<>>)
  \o (IF after \/ weekend THEN <<"off_hours">> ELSE <<>>)
  \o (IF action \in {"download", "modify", "delete"} THEN <<"high_risk_action">> ELSE <<>>)

PrimaryFactor(b, s, i) ==
  LET m1 == IF b > 500 THEN b ELSE 0
      p1 == IF b > 500 THEN "behavioral_anomaly" ELSE "none"
      m2 == IF s > 500 /\ s > m1 THEN s ELSE m1
      p2 == IF s > 500 /\ s > m1 THEN "document_sensitivity" ELSE p1
      p3 == IF i > 0 /\ i > m2 THEN "integrity_violation" ELSE p2
  IN  p3

\* compute_risk of an engine built with the given weights: self.weights are the
\* given weights divided by their sum (the defaults sum to 1)
engine_compute_risk(weights, b, s, i, action, cross, after, weekend) ==
  LET w == normalize_weights(weights)
      Ma == ACTION_MULTIPLIERS(action)
      Mx == IF cross THEN CROSS_DEPT_ACTION_MULTIPLIERS(action) ELSE 10
      Mt == TEMPORAL_MULTIPLIERS(after, weekend)
      weighted == (b * w.behavior + s * w.classification + i * w.integrity) \div 100
      base == IF cross THEN Max(weighted, cross_dept_base_risk(action)) ELSE weighted
      final == Min(base * Ma * Mx * Mt, ONE)
  IN  [risk_score |-> final,
       risk_level |-> RiskLevelOf(final),
       action_multiplier |-> Ma,
       cross_department_multiplier |-> Mx,
       temporal_multiplier |-> Mt,
       is_anomalous |-> b > 500,
       is_cross_department |-> cross,
       requires_alert |-> final >= ALERT_THRESHOLD,
       primary_risk_factor |-> PrimaryFactor(b, s, i),
       risk_factors |-> RiskFactors(b, s, i, action, cross, after, weekend)]

\* the engine of the pipeline: the configured weights are the defaults
compute_risk(b, s, i, action, cross, after, weekend) ==
  engine_compute_risk(DEFAULT_WEIGHTS, b, s, i, action, cross, after, weekend)


(***************************************************************************)
(* Users, documents and contents offered to the model                      *)
(***************************************************************************)
\* rows of the users table written at startup by init_db -> seed_default_users, in
\* insertion order (create_sample_users runs only on an empty table, so never)
default_users == <<"USR001", "USR002", "USR003", "USR004", "USR005", "USR006">>

UserDepartment(u) ==
  CASE u = "USR001" -> "FINANCE"
    [] u = "USR002" -> "HR"
    [] u = "USR003" -> "LEGAL"
    [] u = "USR004" -> "IT"
    [] u = "USR005" -> "IT"
    [] u = "USR006" -> "IT"
    [] OTHER -> "IT"

\* db.query(User).filter(User.user_id == uid).first(): the row's primary key, 0 when there is no row
UserDbId(uid) ==
  IF \E k \in 1..Len(default_users) : default_users[k] = uid
  THEN CHOOSE k \in 1..Len(default_users) : default_users[k] = uid
  ELSE 0

\* Document contents are represented by what the two classifiers count in them:
\*   kw  = matches of the public / internal / confidential keyword lists (ml_engine sensitivity.py)
\*   up  = distinct confidential / internal / public keywords and sensitive patterns (ml/sensitivity_classifier.py)
\*   len = number of characters
\* "memo"   e.g. "hello team"              "secret" e.g. "salary ssn"
\* "press"  e.g. "press release"           BadContent: a JSON value that is not text (e.g. 7)
TextContents == {"memo", "secret", "press"}

BadContent == "NOT_TEXT"

ContentFeatures(c) ==
  CASE c = "memo" -> [kw |-> [public |-> 0, internal |-> 0, confidential |-> 0],
                      up |-> [confidential |-> 0, internal |-> 0, public |-> 0, patterns |-> 0]]
    [] c = "secret" -> [kw |-> [public |-> 0, internal |-> 0, confidential |-> 2],
                        up |-> [confidential |-> 2, internal |-> 0, public |-> 0, patterns |-> 0]]
    [] c = "press" -> [kw |-> [public |-> 1, internal |-> 0, confidential |-> 0],
                       up |-> [confidential |-> 0, internal |-> 0, public |-> 1, patterns |-> 0]]

(***************************************************************************)
(* Sensitivity classifier of the pipeline (ml_engine/documents)            *)
(***************************************************************************)
RISK_WEIGHTS(level) ==
  CASE level = "public" -> 1
    [] level = "internal" -> 5
    [] level = "confidential" -> 9

\* the neutral result built by ThreatDetectionPipeline.run before classification
DefaultClassification == [sensitivity |-> "internal", confidence |-> 500]

classify_by_keywords(c) ==
  LET sc == ContentFeatures(c).kw
      total == sc.public + sc.internal + sc.confidential
      \* max(scores, key=scores.get): first maximum in the order public, internal, confidential
      predicted == IF sc.public >= sc.internal /\ sc.public >= sc.confidential THEN "public"
                   ELSE IF sc.internal >= sc.confidential THEN "internal"
                   ELSE "confidential"
      conf == (1000 * sc[predicted]) \div total
      boosted == IF predicted = "confidential" /\ conf < 600
                 THEN Min((conf * 15) \div 10, 950) ELSE conf
  IN  IF total = 0
      THEN [sensitivity |-> "internal", confidence |-> 500]
      ELSE [sensitivity |-> predicted, confidence |-> boosted]

\* base_risk * confidence, in thousandths
get_risk_score(result) ==
  (RISK_WEIGHTS(result.sensitivity) * result.confidence) \div 10


(***************************************************************************)
(* State                                                                   *)
(***************************************************************************)
VARIABLES
  queue,            \* event_queue: payloads waiting, head first
  unfinished_tasks, \* asyncio.Queue counter: +1 per put, -1 per task_done
  admitted,         \* history: payload tags in the order they were admitted
  taken,            \* history: payload tags in the order the worker took them
  done,             \* history: one entry per task_done() call: payload tag and failed step
  rejected,         \* history: payload tags refused by the queue (QueueFull)
  wpc,              \* position of the ml_worker coroutine
  wcur,             \* worker locals: payload, result, event_db_id, alert_id
  bc,               \* the broadcast in progress: message, dict iterator, disconnected list
  caller_bc,        \* a broadcast in progress in a coroutine that is not the worker
  events,           \* events table, primary key = index
  alerts,           \* alerts table, primary key = index
  explanations,     \* explanations table
  modifications,    \* document_modifications table
  documents,        \* documents table, primary key = index
  hist_w,           \* behaviour history of the worker's pipeline: user_id -> events
  hist_api,         \* behaviour history of the API's pipeline
  conns,            \* manager.active_connections: dict entries in insertion order
  sock,             \* per WebSocket: its endpoint coroutine position and user
  inbox,            \* per WebSocket: messages the client has received, in order
  bcast_log,        \* history: messages handed to manager.broadcast, with the sessions registered then
  bg,               \* background tasks of ingest requests not yet run
  responses,        \* history: HTTP responses of ingest and upload requests
  now,              \* the clock read by datetime.utcnow(), in ticks
  verifier,         \* an IntegrityVerifier: its hash registry, and the calls made to it
  fusion,           \* a RiskFusionEngine under test: its inputs and the assessments it returned
  nreq,             \* number of requests, client messages and broadcast calls handled
  wallclock         \* the hour of the week datetime.utcnow() is in, Monday 00:00 = 0

qvars == <<queue, unfinished_tasks, admitted, taken, done, rejected>>

wvars == <<wpc, wcur, bc>>

dbvars == <<events, alerts, explanations, modifications, documents>>

wsvars == <<conns, sock, inbox>>

apivars == <<bg, responses, nreq>>

vars == <<queue, unfinished_tasks, admitted, taken, done, rejected, wpc, wcur, bc,
          events, alerts, explanations, modifications, documents, hist_w, hist_api,
          conns, sock, inbox, bcast_log, bg, responses, nreq, wallclock, now, fusion, verifier,
          caller_bc>>

Sockets == 1..MaxSockets

\* datetime.utcnow() falls in business hours, outside them on a weekday, or on a weekend
\* the wall clock when the program starts: Wednesday 10:00, Wednesday 20:00 and
\* Sunday 10:00
StartTimes == {58, 68, 154}

\* datetime.hour and datetime.weekday() of an hour of the week
hour(t) == t % 24

weekday(t) == t \div 24

Tomb == [user |-> None, ws |-> 0]

\* no message, no payload, no result: the worker holds none between two events
NoMsg == [type |-> None, ref |-> 0]

NoPayload == [seq |-> 0]

NoResult == [risk_level |-> None]

NoBroadcast == [msg |-> NoMsg, pos |-> 0, used |-> 0, left |-> 0, disconnected |-> <<>>, target |-> Tomb, next |-> None]

\* failed names the step whose exception ended the processing of the event
NoCur == [payload |-> NoPayload, result |-> NoResult, timestamp |-> 0, event_db_id |-> 0,
          alert_id |-> 0, failed |-> "none"]

\* the state once the application has started, the engine under test apart
Started ==
  /\ queue = <<>>
  /\ unfinished_tasks = 0
  /\ admitted = <<>>
  /\ taken = <<>>
  /\ done = <<>>
  /\ rejected = <<>>
  /\ wpc = "get"
  /\ wcur = NoCur
  /\ bc = NoBroadcast
  /\ caller_bc = NoBroadcast
  /\ events = <<>>
  /\ alerts = <<>>
  /\ explanations = <<>>
  /\ modifications = <<>>
  /\ documents = <<>>
  /\ hist_w = [u \in {} |-> <<>>]
  /\ hist_api = [u \in {} |-> <<>>]
  /\ conns = <<>>
  /\ sock = [w \in Sockets |-> [pc |-> "new", user |-> None, alive |-> FALSE]]
  /\ inbox = [w \in Sockets |-> <<>>]
  /\ bcast_log = <<>>
  /\ bg = <<>>
  /\ responses = <<>>
  /\ nreq = [ingest |-> 0, upload |-> 0, seed |-> 0, alert |-> 0, message |-> 0, broadcast |-> 0]
  /\ wallclock \in StartTimes
  /\ now = 0

\* no engine is under test
NoFusion == [weights |-> DEFAULT_WEIGHTS, behavior_score |-> 0, classification_score |-> 0,
             integrity_score |-> 0, action |-> None, is_cross_department |-> FALSE,
             is_after_hours |-> FALSE, is_weekend |-> FALSE, out |-> <<>>]

\* IntegrityVerifier.__init__: an empty registry (registered and checks are the
\* history of the calls of register_document and verify_content)
NoVerifier == [registry |-> [d \in {} |-> None], registered |-> <<>>, checks |-> <<>>]

Init ==
  /\ Started
  /\ fusion = NoFusion
  /\ verifier = NoVerifier

\* the application started on a Wednesday at 10:00
InitWednesday == Init /\ hour(wallclock) = 10 /\ weekday(wallclock) = 2

\* The event loop runs another coroutine only while the worker is suspended: in
\* an event_queue.get() that found the queue empty, or inside websocket.send_json().
\* A put wakes the getter through the loop, so that the coroutines that are
\* runnable by then run before the worker resumes.
WorkerSuspended ==
  \/ wpc = "get"
  \/ wpc = "send"

\* the top of the worker's loop: event_queue.get() suspends on an empty queue
\* ("get") and returns at once otherwise ("take")
loop_top(q) == IF q = <<>> THEN "get" ELSE "take"


(***************************************************************************)
(* Event queue (streaming/event_queue.py): asyncio.Queue(maxsize=1000)     *)
(***************************************************************************)
qsize(q) == Len(q)

\* a capacity test that is off by one
full_off_by_one(size) == size > maxsize

\* asyncio.Queue.full, on the number of items held
full(size) == size >= maxsize

\* is_queue_full, on the number of items held
is_queue_full(size) == size > NEAR_CAPACITY

\* asyncio.Queue.get returns the item at the head
get_item(q) == Head(q)

get_rest(q) == Tail(q)

\* Payloads a producer offers.  The tag seq is the number of the offer.
PayloadShapes ==
  { [user_id |-> "USR001", user_department |-> "FINANCE", document_id |-> "DOC001",
     target_department |-> "Finance", action |-> "view", document_content |-> None],
    [user_id |-> "USR001", user_department |-> "FINANCE", document_id |-> "DOC001",
     target_department |-> "HR", action |-> "delete", document_content |-> None],
    [user_id |-> "USR001", user_department |-> "FINANCE", document_id |-> "DOC001",
     target_department |-> "Finance", action |-> "modify", document_content |-> "secret"],
    [user_id |-> "USR999", user_department |-> "IT", document_id |-> "DOC404",
     target_department |-> "HR", action |-> "delete", document_content |-> None],
    [user_id |-> "USR001", user_department |-> "FINANCE", document_id |-> "DOC001",
     target_department |-> "Finance", action |-> "rename", document_content |-> None],
    [user_id |-> "USR001", user_department |-> "FINANCE", document_id |-> "DOC001",
     target_department |-> "Finance", action |-> "modify", document_content |-> BadContent] }

Tagged(shape, n) ==
  [seq |-> n, user_id |-> shape.user_id, user_department |-> shape.user_department,
   document_id |-> shape.document_id, target_department |-> shape.target_department,
   action |-> shape.action, document_content |-> shape.document_content,
   ingested_at |-> now]

\* n successive event_queue.put_nowait(payload) calls by a producer: the k-th call
\* raises QueueFull when the queue holds maxsize items by then, otherwise its payload
\* joins the tail (every call before a refused one was admitted, the queue only grows)
put_many(st, shape, n) ==
  LET base == Len(st.admitted) + Len(st.rejected)
      fits == Cardinality({k \in 1..n : ~full(qsize(st.queue) + (k - 1))})
  IN  [queue |-> st.queue \o [k \in 1..fits |-> Tagged(shape, base + k)],
       unfinished_tasks |-> st.unfinished_tasks + fits,
       admitted |-> st.admitted \o [k \in 1..fits |-> base + k],
       rejected |-> st.rejected \o [k \in 1..(n - fits) |-> base + fits + k]]

\* a producer offers n payloads back to back, without yielding to the event loop;
\* limit bounds the number of offers of a run
Offer(shape, n, limit) ==
  /\ WorkerSuspended
  /\ Len(admitted) + Len(rejected) + n <= limit
  /\ LET st == put_many([queue |-> queue, unfinished_tasks |-> unfinished_tasks,
                         admitted |-> admitted, rejected |-> rejected], shape, n)
     IN  /\ queue' = st.queue
         /\ unfinished_tasks' = st.unfinished_tasks
         /\ admitted' = st.admitted
         /\ rejected' = st.rejected
  /\ UNCHANGED <<caller_bc, verifier, fusion, now, wallclock, taken, done, wvars, dbvars, hist_w, hist_api, wsvars, bcast_log, apivars>>

(***************************************************************************)
(* ThreatDetectionPipeline.run (ml_engine/pipeline.py)                     *)
(***************************************************************************)
\* BehavioralAnomalyDetector.score_event: the detector of a pipeline built by
\* get_pipeline() is never trained, so the score is neutral
score_event(is_trained, normalized, prediction) ==
  IF ~is_trained THEN [score |-> 0, is_anomaly |-> FALSE]
  ELSE [score |-> Max(0, Min(normalized, 1000)), is_anomaly |-> prediction = -1]

history_of(hist, uid) == IF uid \in DOMAIN hist THEN hist[uid] ELSE <<>>

\* timedelta(hours=24) in ticks of the clock
HOURS_24 == 2

\* the entry of an event in a history: event.dict(), of which the tag and the
\* timestamp are kept
HistoryEntry(seq, timestamp) == [seq |-> seq, timestamp |-> timestamp]

\* an update_user_history that appends and never evicts
update_user_history_keeping_all(hist, uid, ev, utcnow) ==
  [u \in (DOMAIN hist) \cup {uid} |-> IF u = uid THEN Append(history_of(hist, uid), ev) ELSE hist[u]]

\* update_user_history: append the event to the actor's list, then keep the
\* entries of that list whose timestamp is later than the cutoff utcnow() - 24h
update_user_history(hist, uid, ev, utcnow) ==
  LET appended == Append(history_of(hist, uid), ev)
      cutoff == utcnow - HOURS_24
  IN  [u \in (DOMAIN hist) \cup {uid} |->
         IF u = uid THEN SelectSeq(appended, LAMBDA e : e.timestamp > cutoff) ELSE hist[u]]

\* size in bytes of a content
ContentSize(c) ==
  CASE c = "memo" -> 10
    [] c = "secret" -> 10
    [] c = "press" -> 13
    [] OTHER -> 0

Abs(x) == IF x < 0 THEN -x ELSE x

\* IntegrityVerifier.register_document: hash and size of the baseline (a content's
\* hash is represented by the content itself: SHA-256 is taken to be injective)
register_document(registry, document_id, content) ==
  [d \in (DOMAIN registry) \cup {document_id} |->
     IF d = document_id THEN [hash |-> content, size_bytes |-> ContentSize(content)]
     ELSE registry[d]]

\* a verify_content whose baseline hash of an unregistered document is empty
verify_content_without_baseline(registry, document_id, content) ==
  LET registered == document_id \in DOMAIN registry
      hash_match == registered /\ registry[document_id].hash = content
      delta == IF registered THEN ContentSize(content) - registry[document_id].size_bytes ELSE 0
      original_size == IF registered THEN registry[document_id].size_bytes ELSE ContentSize(content)
  IN  [hash_match |-> hash_match, is_tampered |-> ~hash_match,
       tamper_severity |-> IF hash_match THEN "none"
                           ELSE IF Abs(delta) * 100 < 5 * original_size THEN "minor"
                           ELSE IF Abs(delta) * 100 < 20 * original_size THEN "moderate"
                           ELSE "major"]

\* IntegrityVerifier.verify_content, use_semantic = False: an unregistered
\* document takes the current hash and size as its baseline
verify_content(registry, document_id, content) ==
  LET current_hash == content
      current_size == ContentSize(content)
      registered == document_id \in DOMAIN registry
      original_hash == IF registered THEN registry[document_id].hash ELSE current_hash
      original_size == IF registered THEN registry[document_id].size_bytes ELSE current_size
      hash_match == original_hash = current_hash
      delta == current_size - original_size
      \* abs(size_change_percent) < 5 and < 20, with size_change_percent = 0 when original_size = 0
      lt5 == IF original_size > 0 THEN Abs(delta) * 100 < 5 * original_size ELSE TRUE
      lt20 == IF original_size > 0 THEN Abs(delta) * 100 < 20 * original_size ELSE TRUE
  IN  [hash_match |-> hash_match, is_tampered |-> ~hash_match,
       tamper_severity |-> IF hash_match THEN "none"
                           ELSE IF lt5 THEN "minor"
                           ELSE IF lt20 THEN "moderate"
                           ELSE "major"]

integrity_risk_score(res) ==
  IF ~res.is_tampered THEN 0
  ELSE CASE res.tamper_severity = "none" -> 0
         [] res.tamper_severity = "minor" -> 300
         [] res.tamper_severity = "moderate" -> 600
         [] res.tamper_severity = "major" -> 900
         [] OTHER -> 700

EmptyRegistry == [d \in {} |-> None]

\* run(event, document_content).  raised = TRUE when an exception leaves run();
\* hist is the behaviour history after the call (it is updated before classification).
run(hist, ev, content, timestamp, lime_ok, utcnow) ==
  LET beh == score_event(FALSE, 0, 1)
      hist2 == update_user_history(hist, ev.user_id, HistoryEntry(ev.seq, utcnow), utcnow)
      has_content == content # None
      crash == has_content /\ content = BadContent
      cls == IF has_content /\ ~crash THEN classify_by_keywords(content) ELSE DefaultClassification
      s == get_risk_score(cls)
      integ == IF has_content /\ ~crash /\ ev.action \in {"modify", "upload"}
               THEN verify_content(EmptyRegistry, ev.document_id, content)
               ELSE [hash_match |-> TRUE, is_tampered |-> FALSE, tamper_severity |-> "none"]
      i == integrity_risk_score(integ)
      cross == Lower(ev.user_department) # Lower(ev.target_department)
      after == hour(timestamp) < 8 \/ hour(timestamp) > 18
      weekend == weekday(timestamp) >= 5
      ra == compute_risk(beh.score, s, i, ev.action, cross, after, weekend)
  IN  [raised |-> crash,
       hist |-> hist2,
       result |-> [risk_score |-> ra.risk_score,
                   risk_level |-> ra.risk_level,
                   requires_alert |-> ra.requires_alert,
                   behavior_score |-> beh.score,
                   sensitivity_score |-> s,
                   integrity_score |-> i,
                   document_sensitivity |-> cls.sensitivity,
                   sensitivity_confidence |-> cls.confidence,
                   is_tampered |-> integ.is_tampered,
                   is_cross_department |-> cross,
                   is_anomalous |-> beh.is_anomaly,
                   shap_explanation |-> FALSE,
                   lime_explanation |-> has_content /\ lime_ok]]


(***************************************************************************)
(* Persistence helpers (streaming/ml_worker.py)                            *)
(***************************************************************************)
\* db.query(Document).filter(Document.document_id == did).first(): primary key, 0 when absent
DocDbId(docs, did) ==
  IF \E k \in 1..Len(docs) : docs[k].document_id = did
  THEN CHOOSE k \in 1..Len(docs) : docs[k].document_id = did
  ELSE 0

\* ActionType(action) raises ValueError for a value outside the enumeration
ActionTypeOk(action) == action \in Actions

\* the Event row written by store_event_to_db; payload_* and requires_alert record
\* what the payload named and what the scoring decided
WorkerEventRow(evs, docs, p, r, timestamp) ==
  [id |-> Len(evs) + 1,
   via |-> "worker",
   tag |-> p.seq,
   user_id |-> IF UserDbId(p.user_id) # 0 THEN UserDbId(p.user_id) ELSE 1,
   user_department |-> p.user_department,
   action |-> p.action,
   document_id |-> IF DocDbId(docs, p.document_id) # 0 THEN DocDbId(docs, p.document_id) ELSE 1,
   target_department |-> p.target_department,
   is_cross_department |-> r.is_cross_department,
   behavior_score |-> r.behavior_score,
   risk_score |-> r.risk_score,
   risk_level |-> r.risk_level,
   payload_user |-> p.user_id,
   payload_document |-> p.document_id,
   requires_alert |-> r.requires_alert,
   timestamp |-> timestamp,
   ingested_at |-> p.ingested_at]

store_event_ok(p) == ActionTypeOk(p.action)

\* priority chosen by create_alert_if_needed
WorkerPriority(risk_level) ==
  IF risk_level = "critical" THEN "critical"
  ELSE IF risk_level = "high" THEN "high"
  ELSE IF risk_level = "medium" THEN "medium"
  ELSE "low"

\* create_alert_if_needed returns an alert id only when requires_alert holds and the user row exists
alert_needed(r, uid) == r.requires_alert /\ UserDbId(uid) # 0

AlertRow(als, event_db_id, uid, priority, risk_score) ==
  [id |-> Len(als) + 1, event_id |-> event_db_id, user_id |-> UserDbId(uid),
   priority |-> priority, status |-> "open", risk_score |-> risk_score,
   assigned_to |-> None, resolved_at |-> None]

explanation_needed(r) == r.shap_explanation \/ r.lime_explanation

ExplanationRow(event_db_id, r) ==
  [event_id |-> event_db_id,
   explanation_type |-> IF r.shap_explanation THEN "shap_behavior" ELSE "lime_text"]

modification_needed(p) == p.action = "modify" /\ p.document_content # None


\* the document_modifications row and the document update of store_document_modification
\* document.original_content or document.full_content or document.content_preview or ""
original_content_of(doc) ==
  IF doc.original_content \notin {None, ""} THEN doc.original_content
  ELSE IF doc.full_content \notin {None, ""} THEN doc.full_content
  ELSE IF doc.content_preview \notin {None, ""} THEN doc.content_preview
  ELSE ""

\* the characters of a content: "memo" is the text "hello team", "secret" is
\* "salary ssn", "press" is "press release"; "previewNNN" is the content_preview of
\* the seeded document DOCNNN; no content and the empty text have no characters
Chars(c) ==
  CASE c = "memo" -> <<"h", "e", "l", "l", "o", " ", "t", "e", "a", "m">>
    [] c = "secret" -> <<"s", "a", "l", "a", "r", "y", " ", "s", "s", "n">>
    [] c = "press" -> <<"p", "r", "e", "s", "s", " ", "r", "e", "l", "e", "a", "s", "e">>
    [] c = "preview001" ->
         <<"E", "m", "p", "l", "o", "y", "e", "e", " ", "H", "a", "n", "d", "b", "o", "o", "k", " ",
           "2", "0", "2", "6", " ", "-", " ", "C", "o", "m", "p", "a", "n", "y", " ", "p",
           "o", "l", "i", "c", "i", "e", "s", " ", "a", "n", "d", " ", "g", "u", "i", "d",
           "e", "l", "i", "n", "e", "s", " ", "f", "o", "r", " ", "a", "l", "l", " ", "e",
           "m", "p", "l", "o", "y", "e", "e", "s", ".">>
    [] c = "preview002" ->
         <<"S", "a", "l", "a", "r", "y", " ", "S", "t", "r", "u", "c", "t", "u", "r", "e", " ", "-",
           " ", "C", "o", "n", "f", "i", "d", "e", "n", "t", "i", "a", "l", " ", "e", "m",
           "p", "l", "o", "y", "e", "e", " ", "c", "o", "m", "p", "e", "n", "s", "a", "t",
           "i", "o", "n", " ", "d", "e", "t", "a", "i", "l", "s", " ", "i", "n", "c", "l",
           "u", "d", "i", "n", "g", " ", "S", "S", "N", " ", "d", "a", "t", "a", ".">>
    [] c = "preview003" ->
         <<"N", "e", "w", " ", "E", "m", "p", "l", "o", "y", "e", "e", " ", "O", "n", "b", "o", "a",
           "r", "d", "i", "n", "g", " ", "C", "h", "e", "c", "k", "l", "i", "s", "t", " ",
           "-", " ", "I", "n", "t", "e", "r", "n", "a", "l", " ", "H", "R", " ", "p", "r",
           "o", "c", "e", "s", "s", " ", "d", "o", "c", "u", "m", "e", "n", "t", ".">>
    [] c = "preview004" ->
         <<"Q", "4", " ", "2", "0", "2", "5", " ", "F", "i", "n", "a", "n", "c", "i", "a", "l", " ",
           "R", "e", "p", "o", "r", "t", " ", "-", " ", "C", "o", "n", "f", "i", "d", "e",
           "n", "t", "i", "a", "l", " ", "q", "u", "a", "r", "t", "e", "r", "l", "y", " ",
           "e", "a", "r", "n", "i", "n", "g", "s", " ", "a", "n", "d", " ", "p", "r", "o",
           "j", "e", "c", "t", "i", "o", "n", "s", ".">>
    [] c = "preview005" ->
         <<"A", "n", "n", "u", "a", "l", " ", "B", "u", "d", "g", "e", "t", " ", "2", "0", "2", "6",
           " ", "-", " ", "D", "e", "p", "a", "r", "t", "m", "e", "n", "t", "a", "l", " ",
           "b", "u", "d", "g", "e", "t", " ", "a", "l", "l", "o", "c", "a", "t", "i", "o",
           "n", "s", " ", "a", "n", "d", " ", "f", "o", "r", "e", "c", "a", "s", "t", "s",
           ".">>
    [] c = "preview006" ->
         <<"E", "x", "p", "e", "n", "s", "e", " ", "R", "e", "i", "m", "b", "u", "r", "s", "e", "m",
           "e", "n", "t", " ", "P", "o", "l", "i", "c", "y", " ", "-", " ", "G", "u", "i",
           "d", "e", "l", "i", "n", "e", "s", " ", "f", "o", "r", " ", "e", "m", "p", "l",
           "o", "y", "e", "e", " ", "e", "x", "p", "e", "n", "s", "e", " ", "c", "l", "a",
           "i", "m", "s", ".">>
    [] c = "preview007" ->
         <<"N", "o", "n", "-", "D", "i", "s", "c", "l", "o", "s", "u", "r", "e", " ", "A", "g", "r",
           "e", "e", "m", "e", "n", "t", " ", "T", "e", "m", "p", "l", "a", "t", "e", " ",
           "-", " ", "S", "t", "a", "n", "d", "a", "r", "d", " ", "N", "D", "A", " ", "f",
           "o", "r", " ", "b", "u", "s", "i", "n", "e", "s", "s", " ", "p", "a", "r", "t",
           "n", "e", "r", "s", ".">>
    [] c = "preview008" ->
         <<"M", "&", "A", " ", "S", "t", "r", "a", "t", "e", "g", "i", "c", " ", "P", "l", "a", "n",
           " ", "-", " ", "C", "o", "n", "f", "i", "d", "e", "n", "t", "i", "a", "l", " ",
           "m", "e", "r", "g", "e", "r", " ", "a", "n", "d", " ", "a", "c", "q", "u", "i",
           "s", "i", "t", "i", "o", "n", " ", "t", "a", "r", "g", "e", "t", "s", " ", "f",
           "o", "r", " ", "2", "0", "2", "6", ".">>
    [] c = "preview009" ->
         <<"I", "T", " ", "S", "e", "c", "u", "r", "i", "t", "y", " ", "P", "r", "o", "t", "o", "c",
           "o", "l", "s", " ", "-", " ", "S", "y", "s", "t", "e", "m", " ", "a", "c", "c",
           "e", "s", "s", " ", "c", "o", "n", "t", "r", "o", "l", "s", " ", "a", "n", "d",
           " ", "s", "e", "c", "u", "r", "i", "t", "y", " ", "p", "r", "o", "c", "e", "d",
           "u", "r", "e", "s", ".">>
    [] c = "preview010" ->
         <<"C", "o", "r", "p", "o", "r", "a", "t", "e", " ", "N", "e", "t", "w", "o", "r", "k", " ",
           "A", "r", "c", "h", "i", "t", "e", "c", "t", "u", "r", "e", " ", "-", " ", "I",
           "n", "t", "e", "r", "n", "a", "l", " ", "n", "e", "t", "w", "o", "r", "k", " ",
           "t", "o", "p", "o", "l", "o", "g", "y", " ", "d", "i", "a", "g", "r", "a", "m",
           ".">>
    [] c = "preview011" ->
         <<"C", "o", "m", "p", "a", "n", "y", " ", "A", "n", "n", "o", "u", "n", "c", "e", "m", "e",
           "n", "t", " ", "-", " ", "P", "u", "b", "l", "i", "c", " ", "p", "r", "e", "s",
           "s", " ", "r", "e", "l", "e", "a", "s", "e", " ", "f", "o", "r", " ", "a", "l",
           "l", " ", "e", "m", "p", "l", "o", "y", "e", "e", "s", " ", "a", "n", "d", " ",
           "s", "t", "a", "k", "e", "h", "o", "l", "d", "e", "r", "s", ".">>
    [] OTHER -> <<>>

\* length of the run of equal characters starting at a[i] and b[j] (0-based, as in
\* Python) and staying below ahi and bhi
RunLen(a, b, i, j, ahi, bhi) ==
  LET lim == Min(ahi - i, bhi - j)
  IN  CHOOSE k \in 0..lim :
        /\ \A t \in 0..(k - 1) : a[i + t + 1] = b[j + t + 1]
        /\ (k = lim \/ a[i + k + 1] # b[j + k + 1])

\* the value of an expression is computed once when it is bound by a set
\* constructor; the operators below bind their intermediate results that way

\* the greatest size in a table sz of block sizes over the pairs cand
max_size(sz, cand) == CHOOSE k \in {sz[p] : p \in cand} : \A p \in cand : sz[p] <= k

\* of the pairs with the greatest size the one starting earliest in a, and of those
\* the one starting earliest in b
earliest_block(sz, cand, best) ==
  LET p == CHOOSE p \in cand :
             /\ sz[p] = best
             /\ \A q \in cand : sz[q] = best => (p[1] < q[1] \/ (p[1] = q[1] /\ p[2] <= q[2]))
  IN  [i |-> p[1], j |-> p[2], size |-> best]

\* SequenceMatcher.find_longest_match without junk: the longest block
\* a[i:i+size] = b[j:j+size] within a[alo:ahi] and b[blo:bhi]; of the longest blocks
\* the one starting earliest in a, and of those the one starting earliest in b
find_longest_match(a, b, alo, ahi, blo, bhi) ==
  IF alo >= ahi \/ blo >= bhi THEN [i |-> alo, j |-> blo, size |-> 0]
  ELSE CHOOSE m \in UNION { UNION { { IF best = 0 THEN [i |-> alo, j |-> blo, size |-> 0]
                                      ELSE earliest_block(sz, DOMAIN sz, best) }
                                    : best \in {max_size(sz, DOMAIN sz)} }
                           : sz \in { [p \in (alo..(ahi - 1)) \X (blo..(bhi - 1)) |->
                                        RunLen(a, b, p[1], p[2], ahi, bhi)] } } : TRUE

\* SequenceMatcher.get_matching_blocks: the longest block, then the blocks to its
\* left and to its right; the result here is the total size of the blocks
RECURSIVE matching_size(_, _, _, _, _, _)
matching_size(a, b, alo, ahi, blo, bhi) ==
  CHOOSE n \in { IF m.size = 0 THEN 0
                 ELSE m.size
                      + (IF alo < m.i /\ blo < m.j
                         THEN matching_size(a, b, alo, m.i, blo, m.j) ELSE 0)
                      + (IF m.i + m.size < ahi /\ m.j + m.size < bhi
                         THEN matching_size(a, b, m.i + m.size, ahi, m.j + m.size, bhi) ELSE 0)
                 : m \in {find_longest_match(a, b, alo, ahi, blo, bhi)} } : TRUE

\* the sums over get_opcodes(): every character of the original outside the matching
\* blocks is removed (replace, delete), every such character of the modified content
\* is added (replace, insert); change_percent is kept in thousandths of a percent
opcode_sums(original_length, modified_length, matched) ==
  [original_length |-> original_length,
   modified_length |-> modified_length,
   chars_added |-> modified_length - matched,
   chars_removed |-> original_length - matched,
   change_percent |-> IF original_length > 0
                      THEN (((modified_length - matched) + (original_length - matched)) * 100000)
                             \div original_length
                      ELSE 0]

diff_stats(original_content, modified_content) ==
  CHOOSE d \in UNION { { opcode_sums(Len(a), Len(b), matching_size(a, b, 0, Len(a), 0, Len(b)))
                         : b \in {Chars(modified_content)} }
                       : a \in {Chars(original_content)} } : TRUE

\* the texts a stored document can hold as its original content ("" when the document
\* is missing or holds none) and the texts a modify request can carry
OriginalContents == {""} \cup TextContents \cup {"preview001", "preview002", "preview003",
  "preview004", "preview005", "preview006", "preview007", "preview008", "preview009",
  "preview010", "preview011"}

\* diff_stats of every pair of texts, computed once
DiffTable ==
  { [original |-> o, modified |-> m, stats |-> diff_stats(o, m)]
      : o \in OriginalContents, m \in TextContents }

diff_of(original_content, modified_content) ==
  (CHOOSE t \in DiffTable : t.original = original_content /\ t.modified = modified_content).stats

ModificationRow(docs, p, r) ==
  LET k == DocDbId(docs, p.document_id)
      original == IF k # 0 THEN original_content_of(docs[k]) ELSE ""
  IN  CHOOSE row \in
        { [via |-> "worker",
           tag |-> p.seq,
           user_id |-> IF UserDbId(p.user_id) # 0 THEN UserDbId(p.user_id) ELSE 1,
           document_id |-> IF k # 0 THEN k ELSE 1,
           original_content |-> original,
           modified_content |-> p.document_content,
           original_length |-> d.original_length,
           modified_length |-> d.modified_length,
           chars_added |-> d.chars_added,
           chars_removed |-> d.chars_removed,
           change_percent |-> d.change_percent,
           risk_score |-> r.risk_score,
           risk_level |-> r.risk_level,
           payload_user |-> p.user_id,
           payload_document |-> p.document_id]
          : d \in {diff_of(original, p.document_content)} } : TRUE

DocumentsAfterModify(docs, did, content, risk_level) ==
  [k \in 1..Len(docs) |->
     IF docs[k].document_id = did /\ k = DocDbId(docs, did)
     THEN [docs[k] EXCEPT !.full_content = content, !.is_tampered = TRUE,
                          !.tamper_severity = risk_level, !.current_hash = content]
     ELSE docs[k]]

(***************************************************************************)
(* ConnectionManager (realtime/connection_manager.py)                      *)
(* active_connections is a dict: entries keep insertion order, a deleted   *)
(* entry leaves a hole, and an iterator raises RuntimeError from next()    *)
(* when the number of entries differs from the number at its creation, or  *)
(* when it finds an entry after it has yielded that number of entries.     *)
(***************************************************************************)
dict_len(d) == Cardinality({k \in 1..Len(d) : d[k] # Tomb})

dict_has(d, u) == \E k \in 1..Len(d) : d[k] # Tomb /\ d[k].user = u

dict_set(d, u, w) ==
  IF dict_has(d, u)
  THEN [k \in 1..Len(d) |-> IF d[k] # Tomb /\ d[k].user = u THEN [user |-> u, ws |-> w] ELSE d[k]]
  ELSE Append(d, [user |-> u, ws |-> w])

dict_del(d, u) ==
  [k \in 1..Len(d) |-> IF d[k] # Tomb /\ d[k].user = u THEN Tomb ELSE d[k]]

\* first live entry at index >= pos, 0 when the iterator is exhausted
next_pos(d, pos) ==
  IF \E k \in pos..Len(d) : d[k] # Tomb
  THEN CHOOSE k \in pos..Len(d) : d[k] # Tomb /\ \A j \in pos..(k - 1) : d[j] = Tomb
  ELSE 0

\* disconnect(user_id) for every user collected in the broadcast's disconnected list
RECURSIVE disconnect_all(_, _)
disconnect_all(d, users) ==
  IF users = <<>> THEN d ELSE disconnect_all(dict_del(d, Head(users)), Tail(users))

\* websocket.send_json succeeds while the client side of the socket is up
send_ok(sk, w) == sk[w].alive

\* the iterator raises when the dict changed size since the loop started
changed_size(d, used) == dict_len(d) # used

\* the WebSockets registered in the dict
registered(d) == {d[k].ws : k \in {j \in 1..Len(d) : d[j] # Tomb}}

\* manager.broadcast(msg) up to its first suspension; cont is where the worker goes on after it
broadcast_begin(msg, cont) ==
  /\ bcast_log' = Append(bcast_log, [msg |-> msg, audience |-> registered(conns)])
  /\ IF dict_len(conns) = 0
     THEN /\ wpc' = cont
          /\ bc' = NoBroadcast
     ELSE LET k == next_pos(conns, 1)
          IN  /\ wpc' = "send"
              /\ bc' = [msg |-> msg, pos |-> k + 1, used |-> dict_len(conns),
                        left |-> dict_len(conns) - 1,
                        disconnected |-> <<>>, target |-> conns[k], next |-> cont]

\* one websocket.send_json of the broadcast loop completes; the loop then runs to
\* its next send, to the clean-up after the last entry, or to the RuntimeError
ml_worker_send ==
  /\ wpc = "send"
  /\ LET w == bc.target.ws
         ok == send_ok(sock, w)
         disc == IF ok THEN bc.disconnected ELSE Append(bc.disconnected, bc.target.user)
         k == next_pos(conns, bc.pos)
     IN  /\ inbox' = IF ok THEN [inbox EXCEPT ![w] = Append(@, bc.msg)] ELSE inbox
         /\ IF changed_size(conns, bc.used) \/ (k # 0 /\ bc.left = 0)
            THEN /\ wpc' = "error"
                 /\ wcur' = [wcur EXCEPT !.failed = "broadcast"]
                 /\ UNCHANGED <<bc, conns>>
            ELSE IF k # 0
            THEN /\ wpc' = "send"
                 /\ bc' = [bc EXCEPT !.pos = k + 1, !.left = @ - 1, !.target = conns[k],
                                     !.disconnected = disc]
                 /\ UNCHANGED <<wcur, conns>>
            ELSE /\ wpc' = bc.next
                 /\ bc' = NoBroadcast
                 /\ conns' = disconnect_all(conns, disc)
                 /\ UNCHANGED wcur
  /\ UNCHANGED <<caller_bc, verifier, fusion, now, wallclock, qvars, dbvars, hist_w, hist_api, sock, bcast_log, apivars>>


(***************************************************************************)
(* ml_worker (streaming/ml_worker.py), one coroutine                       *)
(***************************************************************************)
\* event_queue.get() and process_event_from_queue: take the head payload and run the pipeline
ml_worker_get ==
  /\ wpc \in {"get", "take"}
  /\ queue # <<>>
  /\ Len(taken) < MaxTakes
  /\ \E lime_ok \in BOOLEAN :
       LET p == get_item(queue)
           out == run(hist_w, p, p.document_content, wallclock, lime_ok, now)
       IN  /\ (p.document_content \in {None, BadContent} => lime_ok)
           /\ queue' = get_rest(queue)
           /\ taken' = Append(taken, p.seq)
           /\ hist_w' = out.hist
           /\ IF out.raised
              THEN /\ wpc' = "error"
                   /\ wcur' = [NoCur EXCEPT !.payload = p, !.timestamp = now, !.failed = "scoring"]
              ELSE /\ wpc' = "store_event"
                   /\ wcur' = [NoCur EXCEPT !.payload = p, !.timestamp = now, !.result = out.result]
  /\ UNCHANGED <<caller_bc, verifier, fusion, now, wallclock, unfinished_tasks, admitted, done, rejected, bc, dbvars, hist_api, wsvars,
                 bcast_log, apivars>>

\* a store_event_to_db that logs its failure and returns no id, as the other helpers do
ml_worker_store_event_swallowing ==
  /\ wpc = "store_event"
  /\ IF store_event_ok(wcur.payload)
     THEN /\ events' = Append(events, WorkerEventRow(events, documents, wcur.payload, wcur.result, wcur.timestamp))
          /\ wcur' = [wcur EXCEPT !.event_db_id = Len(events) + 1]
     ELSE UNCHANGED <<events, wcur>>
  /\ wpc' = "create_alert"
  /\ UNCHANGED <<caller_bc, verifier, fusion, now, wallclock, qvars, bc, alerts, explanations, modifications, documents, hist_w, hist_api,
                 wsvars, bcast_log, apivars>>

\* store_event_to_db: commit the Event row, or raise
ml_worker_store_event ==
  /\ wpc = "store_event"
  /\ IF store_event_ok(wcur.payload)
     THEN /\ events' = Append(events, WorkerEventRow(events, documents, wcur.payload, wcur.result, wcur.timestamp))
          /\ wcur' = [wcur EXCEPT !.event_db_id = Len(events) + 1]
          /\ wpc' = "create_alert"
     ELSE /\ wpc' = "error"
          /\ wcur' = [wcur EXCEPT !.failed = "store_event"]
          /\ UNCHANGED events
  /\ UNCHANGED <<caller_bc, verifier, fusion, now, wallclock, qvars, bc, alerts, explanations, modifications, documents, hist_w, hist_api,
                 wsvars, bcast_log, apivars>>

\* create_alert_if_needed
ml_worker_create_alert ==
  /\ wpc = "create_alert"
  /\ IF alert_needed(wcur.result, wcur.payload.user_id)
     THEN /\ alerts' = Append(alerts, AlertRow(alerts, wcur.event_db_id, wcur.payload.user_id,
                                               WorkerPriority(wcur.result.risk_level),
                                               wcur.result.risk_score))
          /\ wcur' = [wcur EXCEPT !.alert_id = Len(alerts) + 1]
     ELSE UNCHANGED <<alerts, wcur>>
  /\ wpc' = "store_explanation"
  /\ UNCHANGED <<caller_bc, verifier, fusion, now, wallclock, qvars, bc, events, explanations, modifications, documents, hist_w, hist_api,
                 wsvars, bcast_log, apivars>>

\* store_explanation
ml_worker_store_explanation ==
  /\ wpc = "store_explanation"
  /\ explanations' = IF explanation_needed(wcur.result)
                     THEN Append(explanations, ExplanationRow(wcur.event_db_id, wcur.result))
                     ELSE explanations
  /\ wpc' = "store_modification"
  /\ UNCHANGED <<caller_bc, verifier, fusion, now, wallclock, qvars, wcur, bc, events, alerts, modifications, documents, hist_w, hist_api,
                 wsvars, bcast_log, apivars>>

\* store_document_modification
ml_worker_store_modification ==
  /\ wpc = "store_modification"
  /\ IF modification_needed(wcur.payload)
     THEN /\ modifications' = Append(modifications,
                                     ModificationRow(documents, wcur.payload, wcur.result))
          /\ documents' = DocumentsAfterModify(documents, wcur.payload.document_id,
                                               wcur.payload.document_content,
                                               wcur.result.risk_level)
     ELSE UNCHANGED <<modifications, documents>>
  /\ wpc' = "broadcast_event"
  /\ UNCHANGED <<caller_bc, verifier, fusion, now, wallclock, qvars, wcur, bc, events, alerts, explanations, hist_w, hist_api,
                 wsvars, bcast_log, apivars>>

\* manager.broadcast({"type": "new_event", ...})
ml_worker_broadcast_event ==
  /\ wpc = "broadcast_event"
  /\ broadcast_begin([type |-> "new_event", ref |-> wcur.event_db_id], "broadcast_alert")
  /\ UNCHANGED <<caller_bc, verifier, fusion, now, wallclock, qvars, wcur, dbvars, hist_w, hist_api, wsvars, apivars>>

\* if alert_id: manager.broadcast({"type": "new_alert", "alert": full_alert.dict()}).
\* The dict carries the datetime fields of AlertResponse (created_at, updated_at),
\* so json.dumps in websocket.send_json raises TypeError for every session before
\* anything is sent and without suspending: broadcast collects every user in
\* disconnected and unregisters them; no session receives the message
ml_worker_broadcast_alert ==
  /\ wpc = "broadcast_alert"
  /\ IF wcur.alert_id # 0
     THEN LET msg == [type |-> "new_alert", ref |-> alerts[wcur.alert_id].event_id]
              disconnected == [k \in 1..Len(conns) |-> conns[k].user]
          IN  /\ bcast_log' = Append(bcast_log, [msg |-> msg, audience |-> registered(conns)])
              /\ conns' = disconnect_all(conns, disconnected)
     ELSE UNCHANGED <<bcast_log, conns>>
  /\ wpc' = "task_done"
  /\ UNCHANGED <<caller_bc, verifier, fusion, now, wallclock, qvars, wcur, bc, dbvars, hist_w, hist_api,
                 sock, inbox, apivars>>

\* event_queue.task_done() at the end of the loop body
ml_worker_task_done ==
  /\ wpc = "task_done"
  /\ unfinished_tasks' = unfinished_tasks - 1
  /\ done' = Append(done, [seq |-> wcur.payload.seq, failed |-> "none"])
  /\ wpc' = loop_top(queue)
  /\ wcur' = NoCur
  /\ UNCHANGED <<caller_bc, verifier, fusion, now, wallclock, queue, admitted, taken, rejected, bc, dbvars, hist_w, hist_api, wsvars,
                 bcast_log, apivars>>

\* an error handler that puts the payload back on the queue to try it again
ml_worker_error_retrying ==
  /\ wpc = "error"
  /\ queue' = Append(queue, wcur.payload)
  /\ wpc' = loop_top(queue)
  /\ wcur' = NoCur
  /\ bc' = NoBroadcast
  /\ UNCHANGED <<caller_bc, verifier, fusion, now, wallclock, unfinished_tasks, done, admitted, taken, rejected, dbvars, hist_w, hist_api,
                 wsvars, bcast_log, apivars>>

\* except Exception: event_queue.task_done(); continue
ml_worker_error ==
  /\ wpc = "error"
  /\ unfinished_tasks' = unfinished_tasks - 1
  /\ done' = Append(done, [seq |-> wcur.payload.seq, failed |-> wcur.failed])
  /\ wpc' = loop_top(queue)
  /\ wcur' = NoCur
  /\ bc' = NoBroadcast
  /\ UNCHANGED <<caller_bc, verifier, fusion, now, wallclock, queue, admitted, taken, rejected, dbvars, hist_w, hist_api, wsvars,
                 bcast_log, apivars>>

ml_worker ==
  \/ ml_worker_get
  \/ ml_worker_store_event
  \/ ml_worker_create_alert
  \/ ml_worker_store_explanation
  \/ ml_worker_store_modification
  \/ ml_worker_broadcast_event
  \/ ml_worker_send
  \/ ml_worker_broadcast_alert
  \/ ml_worker_task_done
  \/ ml_worker_error


(***************************************************************************)
(* WebSocket endpoint /ws/admin (realtime/websocket_routes.py)             *)
(***************************************************************************)
WsUsers == {"USR005", "USR006"}

\* the token of the query string: the bearer token of one of the users, an expired
\* token, or none
WsTokens == WsUsers \cup {"expired", None}

\* verify_token_websocket(token): the user_id of the token's claims, None for a
\* token that is invalid or expired (the validation of the HTTP handlers)
verify_token_websocket(token) == IF token \in WsUsers THEN token ELSE None

\* the endpoint up to its first suspension.  Without a valid token the socket is
\* closed with code 1008; otherwise manager.connect runs up to its suspension in
\* the welcome send: accept, then register under user_id
ws_connect(w, token) ==
  /\ WorkerSuspended
  /\ sock[w].pc = "new"
  /\ \A v \in Sockets : v < w => sock[v].pc # "new"
  /\ LET u == IF token = None THEN None ELSE verify_token_websocket(token)
     IN  IF u = None
         THEN /\ sock' = [sock EXCEPT ![w] = [pc |-> "gone", user |-> None, alive |-> FALSE]]
              /\ UNCHANGED conns
         ELSE /\ conns' = dict_set(conns, u, w)
              /\ sock' = [sock EXCEPT ![w] = [pc |-> "welcome", user |-> u, alive |-> TRUE]]
  /\ UNCHANGED <<caller_bc, verifier, fusion, now, wallclock, qvars, wvars, dbvars, hist_w, hist_api, inbox, bcast_log, apivars>>

\* the send of connection_established completes and the endpoint goes on to
\* receive_json.  send_personal_message logs and ignores a failing send; on the
\* closed socket receive_json then raises at once, and the endpoint unregisters
\* the user and returns
ws_welcome(w) ==
  /\ WorkerSuspended
  /\ sock[w].pc = "welcome"
  /\ IF send_ok(sock, w)
     THEN /\ inbox' = [inbox EXCEPT ![w] = Append(@, [type |-> "connection_established",
                                                      ref |-> 0])]
          /\ sock' = [sock EXCEPT ![w].pc = "receive"]
          /\ UNCHANGED conns
     ELSE /\ conns' = dict_del(conns, sock[w].user)
          /\ sock' = [sock EXCEPT ![w].pc = "gone"]
          /\ UNCHANGED inbox
  /\ UNCHANGED <<caller_bc, verifier, fusion, now, wallclock, qvars, wvars, dbvars, hist_w, hist_api, bcast_log, apivars>>

\* the client closes its side of the socket
ws_client_close(w) ==
  /\ WorkerSuspended
  /\ sock[w].pc \in {"welcome", "receive", "pong", "subscribed"}
  /\ sock[w].alive
  /\ sock' = [sock EXCEPT ![w].alive = FALSE]
  /\ UNCHANGED <<caller_bc, verifier, fusion, now, wallclock, qvars, wvars, dbvars, hist_w, hist_api, conns, inbox, bcast_log, apivars>>

\* receive_json raises WebSocketDisconnect: manager.disconnect(user_id)
ws_disconnect(w) ==
  /\ WorkerSuspended
  /\ sock[w].pc = "receive"
  /\ ~sock[w].alive
  /\ conns' = dict_del(conns, sock[w].user)
  /\ sock' = [sock EXCEPT ![w].pc = "gone"]
  /\ UNCHANGED <<caller_bc, verifier, fusion, now, wallclock, qvars, wvars, dbvars, hist_w, hist_api, inbox, bcast_log, apivars>>

\* what a client sends: a JSON object with one of these values of "type", or a
\* JSON value that is not an object
ClientMessageTypes == {"ping", "subscribe", "hello", "not_an_object"}

\* receive_json returns a client message and the endpoint handles it up to its
\* next suspension: for a ping it starts the send of pong, for a subscribe the send
\* of subscribed, any other object is ignored; data.get raises on a value that is
\* not an object, and the handler of Exception unregisters the user and returns
ws_receive(w, type) ==
  /\ WorkerSuspended
  /\ sock[w].pc = "receive"
  /\ sock[w].alive
  /\ nreq.message < MaxClientMessages
  /\ nreq' = [nreq EXCEPT !.message = @ + 1]
  /\ sock' = [sock EXCEPT ![w].pc = IF type = "ping" THEN "pong"
                                    ELSE IF type = "subscribe" THEN "subscribed"
                                    ELSE IF type = "not_an_object" THEN "gone"
                                    ELSE "receive"]
  /\ conns' = IF type = "not_an_object" THEN dict_del(conns, sock[w].user) ELSE conns
  /\ UNCHANGED <<caller_bc, verifier, fusion, now, wallclock, qvars, wvars, dbvars, hist_w, hist_api, inbox, bcast_log,
                 bg, responses>>

\* the send of the reply completes and the endpoint goes back to receive_json.
\* send_personal_message logs and ignores a failing send; on the closed socket
\* receive_json then raises at once, and the endpoint unregisters the user and
\* returns
ws_reply(w) ==
  /\ WorkerSuspended
  /\ sock[w].pc \in {"pong", "subscribed"}
  /\ IF send_ok(sock, w)
     THEN /\ inbox' = [inbox EXCEPT ![w] = Append(@, [type |-> sock[w].pc, ref |-> 0])]
          /\ sock' = [sock EXCEPT ![w].pc = "receive"]
          /\ UNCHANGED conns
     ELSE /\ conns' = dict_del(conns, sock[w].user)
          /\ sock' = [sock EXCEPT ![w].pc = "gone"]
          /\ UNCHANGED inbox
  /\ UNCHANGED <<caller_bc, verifier, fusion, now, wallclock, qvars, wvars, dbvars, hist_w, hist_api, bcast_log, apivars>>

websocket_admin_endpoint(w) ==
  \/ \E token \in WsTokens : ws_connect(w, token)
  \/ ws_welcome(w)
  \/ ws_client_close(w)
  \/ ws_disconnect(w)

\* manager.broadcast(msg) awaited by a coroutine that is not the worker, up to its
\* first suspension
caller_broadcast(msg) ==
  /\ WorkerSuspended
  /\ caller_bc = NoBroadcast
  /\ nreq.broadcast < MaxBroadcasts
  /\ nreq' = [nreq EXCEPT !.broadcast = @ + 1]
  /\ bcast_log' = Append(bcast_log, [msg |-> msg, audience |-> registered(conns)])
  /\ IF dict_len(conns) = 0
     THEN caller_bc' = NoBroadcast
     ELSE LET k == next_pos(conns, 1)
          IN  caller_bc' = [msg |-> msg, pos |-> k + 1, used |-> dict_len(conns),
                            left |-> dict_len(conns) - 1, disconnected |-> <<>>,
                            target |-> conns[k], next |-> None]
  /\ UNCHANGED <<verifier, fusion, now, wallclock, qvars, wvars, dbvars, hist_w, hist_api, wsvars,
                 bg, responses>>

\* manager.broadcast_alert(alert_data)
broadcast_alert == caller_broadcast([type |-> "new_alert", ref |-> 0])

\* manager.broadcast_event(event_data)
broadcast_event == caller_broadcast([type |-> "new_event", ref |-> 0])

\* manager.broadcast_system_status(status_data)
broadcast_system_status == caller_broadcast([type |-> "system_status", ref |-> 0])

\* one websocket.send_json of that broadcast completes; the loop then runs to its
\* next send, to the clean-up after the last entry, or to the RuntimeError of the
\* dict iterator, which leaves broadcast and reaches the caller
caller_send ==
  /\ WorkerSuspended
  /\ caller_bc # NoBroadcast
  /\ LET w == caller_bc.target.ws
         ok == send_ok(sock, w)
         disc == IF ok THEN caller_bc.disconnected
                 ELSE Append(caller_bc.disconnected, caller_bc.target.user)
         k == next_pos(conns, caller_bc.pos)
     IN  /\ inbox' = IF ok THEN [inbox EXCEPT ![w] = Append(@, caller_bc.msg)] ELSE inbox
         /\ IF changed_size(conns, caller_bc.used) \/ (k # 0 /\ caller_bc.left = 0)
            THEN /\ caller_bc' = NoBroadcast
                 /\ UNCHANGED conns
            ELSE IF k # 0
            THEN /\ caller_bc' = [caller_bc EXCEPT !.pos = k + 1, !.left = @ - 1,
                                                    !.target = conns[k], !.disconnected = disc]
                 /\ UNCHANGED conns
            ELSE /\ caller_bc' = NoBroadcast
                 /\ conns' = disconnect_all(conns, disc)
  /\ UNCHANGED <<verifier, fusion, now, wallclock, qvars, wvars, dbvars, hist_w, hist_api, sock,
                 bcast_log, apivars>>


(***************************************************************************)
(* Upload classifier (ml/sensitivity_classifier.py)                        *)
(***************************************************************************)
\* classify_document_sensitivity: raw scores in hundredths (0.15 per confidential
\* keyword, 0.25 per sensitive pattern, 0.1 per internal or public keyword),
\* normalised, then the confidence boost and round(confidence, 2); thousandths
classify_document_sensitivity(c) ==
  LET f == ContentFeatures(c).up
      craw == 15 * f.confidential + 25 * f.patterns
      iraw == 10 * f.internal
      praw == 10 * f.public
      total == craw + iraw + praw
      \* normalised scores rounded to hundredths, in thousandths
      norm(x) == ((200 * x + total) \div (2 * total)) * 10
      cs == IF total > 0 THEN norm(craw) ELSE 200
      is == IF total > 0 THEN norm(iraw) ELSE 600
      ps == IF total > 0 THEN norm(praw) ELSE 200
  IN  IF cs >= is /\ cs >= ps
      THEN [predicted_level |-> "confidential", confidence |-> Min(cs + 200, 1000)]
      ELSE IF is >= ps
      THEN [predicted_level |-> "internal", confidence |-> Min(is + 100, 1000)]
      ELSE [predicted_level |-> "public", confidence |-> Min(ps + 100, 1000)]

hierarchy(level) ==
  CASE level = "public" -> 1
    [] level = "internal" -> 2
    [] level = "confidential" -> 3
    [] OTHER -> 2

\* compare_sensitivity: (is_mismatch, risk modifier in units of 1/ONE)
compare_sensitivity(user_declared, ml_predicted, ml_confidence) ==
  LET user_level == hierarchy(user_declared)
      ml_level == hierarchy(ml_predicted)
  IN  IF user_level = ml_level
      THEN [is_mismatch |-> FALSE, risk_modifier |-> 0]
      ELSE IF user_level < ml_level
      THEN [is_mismatch |-> TRUE, risk_modifier |-> 3 * (ml_level - user_level) * ml_confidence * 1000]
      ELSE [is_mismatch |-> FALSE, risk_modifier |-> 500 * ml_confidence]

analyze_document_for_upload(content, user_declared_sensitivity) ==
  LET prediction == classify_document_sensitivity(content)
      cmp == compare_sensitivity(user_declared_sensitivity, prediction.predicted_level,
                                 prediction.confidence)
  IN  [ml_predicted_sensitivity |-> prediction.predicted_level,
       ml_confidence |-> prediction.confidence,
       is_mismatch |-> cmp.is_mismatch,
       mismatch_risk_modifier |-> cmp.risk_modifier]

(***************************************************************************)
(* POST /documents/upload (api/documents.py)                               *)
(***************************************************************************)
DEPARTMENTS == {"HR", "FINANCE", "LEGAL", "IT"}

SensitivityLevels == {"public", "internal", "confidential"}

\* the authenticated caller of the HTTP handlers
ApiUser == "USR001"

UploadRequests ==
  { [department |-> "Finance", sensitivity |-> "internal", content |-> "memo"],
    [department |-> "HR", sensitivity |-> "internal", content |-> "memo"],
    [department |-> "Finance", sensitivity |-> "public", content |-> "secret"],
    [department |-> "HR", sensitivity |-> "public", content |-> "secret"],
    [department |-> "Finance", sensitivity |-> "top-secret", content |-> "press"],
    [department |-> "Finance", sensitivity |-> "CONFIDENTIAL", content |-> "secret"],
    [department |-> "Marketing", sensitivity |-> "internal", content |-> "memo"] }

\* risk level chosen by upload_document for its Event
UploadRiskLevel(risk_score) ==
  IF risk_score >= 7000000 THEN "critical"
  ELSE IF risk_score >= 5000000 THEN "high"
  ELSE IF risk_score >= 3000000 THEN "medium"
  ELSE "low"

\* base_risk of upload_document, capped at 1.0
UploadRiskScore(is_cross_department, sensitivity_mismatch, mismatch_risk_modifier) ==
  Min(1500000 + (IF is_cross_department THEN 4000000 ELSE 0)
              + (IF sensitivity_mismatch THEN mismatch_risk_modifier ELSE 0), ONE)

UploadPriority(sensitivity_mismatch, is_cross_department) ==
  IF sensitivity_mismatch /\ is_cross_department THEN "critical" ELSE "high"

\* document ids in the order of their numbers: DocIds[n] is f"DOC{n:03d}"
DocIds == <<"DOC001", "DOC002", "DOC003", "DOC004", "DOC005", "DOC006", "DOC007", "DOC008",
            "DOC009", "DOC010", "DOC011", "DOC012", "DOC013", "DOC014", "DOC015", "DOC016">>

\* int(document_id.replace("DOC", ""))
DocNum(document_id) == CHOOSE n \in 1..Len(DocIds) : DocIds[n] = document_id

\* f"DOC{num:03d}" with num = number of the highest document id + 1 (1 on an empty table)
NewDocId(docs) ==
  LET nums == {DocNum(docs[k].document_id) : k \in 1..Len(docs)}
      num == IF nums = {} THEN 1 ELSE (CHOOSE n \in nums : \A m \in nums : m <= n) + 1
  IN  DocIds[num]

upload_document(req) ==
  /\ WorkerSuspended
  /\ nreq.upload < MaxUploads
  /\ nreq' = [nreq EXCEPT !.upload = @ + 1]
  /\ LET dept_upper == Upper(req.department)
         sensitivity == IF Lower(req.sensitivity) \in SensitivityLevels
                        THEN Lower(req.sensitivity)
                        ELSE "internal"
         ml == analyze_document_for_upload(req.content, sensitivity)
         is_cross == Upper(UserDepartment(ApiUser)) # dept_upper
         anomaly_triggered == is_cross \/ ml.is_mismatch
         risk_score == UploadRiskScore(is_cross, ml.is_mismatch, ml.mismatch_risk_modifier)
         risk_level == UploadRiskLevel(risk_score)
         doc == [id |-> Len(documents) + 1,
                 document_id |-> NewDocId(documents),
                 department |-> dept_upper,
                 sensitivity |-> sensitivity,
                 ml_predicted_sensitivity |-> ml.ml_predicted_sensitivity,
                 ml_confidence |-> ml.ml_confidence,
                 sensitivity_mismatch |-> ml.is_mismatch,
                 original_hash |-> req.content,
                 current_hash |-> req.content,
                 full_content |-> req.content,
                 original_content |-> req.content,
                 content_preview |-> req.content,
                 is_tampered |-> FALSE,
                 tamper_severity |-> "none"]
         ev == [id |-> Len(events) + 1,
                via |-> "upload",
                tag |-> nreq.upload + 1,
                user_id |-> UserDbId(ApiUser),
                user_department |-> UserDepartment(ApiUser),
                action |-> "upload",
                document_id |-> Len(documents) + 1,
                target_department |-> dept_upper,
                is_cross_department |-> is_cross,
                behavior_score |-> 0,
                risk_score |-> risk_score,
                risk_level |-> risk_level,
                payload_user |-> ApiUser,
                payload_document |-> NewDocId(documents),
                requires_alert |-> anomaly_triggered,
                timestamp |-> now,
                ingested_at |-> now]
     IN  IF dept_upper \notin DEPARTMENTS
         THEN /\ responses' = Append(responses, [kind |-> "upload", status |-> 400,
                                                 qsize |-> qsize(queue), risk_level |-> None])
              /\ UNCHANGED <<documents, events, alerts>>
         ELSE /\ documents' = Append(documents, doc)
              /\ events' = Append(events, ev)
              /\ alerts' = IF anomaly_triggered
                           THEN Append(alerts, AlertRow(alerts, ev.id, ApiUser,
                                                        UploadPriority(ml.is_mismatch, is_cross),
                                                        risk_score))
                           ELSE alerts
              /\ responses' = Append(responses, [kind |-> "upload", status |-> 200,
                                                 qsize |-> qsize(queue), risk_level |-> risk_level])
  /\ UNCHANGED <<caller_bc, verifier, fusion, now, wallclock, qvars, wvars, explanations, modifications, hist_w, hist_api, wsvars,
                 bcast_log, bg>>

(***************************************************************************)
(* POST /documents/seed-demo-documents (api/documents.py)                  *)
(***************************************************************************)
\* the rows listed by seed_demo_documents; a content_preview is represented by a
\* token of its own, the preview text of that document
default_documents ==
  << [document_id |-> "DOC001", department |-> "HR", sensitivity |-> "internal",
      original_hash |-> "abc123hash", current_hash |-> "abc123hash", content_preview |-> "preview001"],
     [document_id |-> "DOC002", department |-> "HR", sensitivity |-> "confidential",
      original_hash |-> "def456hash", current_hash |-> "def456hash", content_preview |-> "preview002"],
     [document_id |-> "DOC003", department |-> "HR", sensitivity |-> "internal",
      original_hash |-> "ghi789hash", current_hash |-> "ghi789hash", content_preview |-> "preview003"],
     [document_id |-> "DOC004", department |-> "FINANCE", sensitivity |-> "confidential",
      original_hash |-> "jkl012hash", current_hash |-> "jkl012hash", content_preview |-> "preview004"],
     [document_id |-> "DOC005", department |-> "FINANCE", sensitivity |-> "confidential",
      original_hash |-> "mno345hash", current_hash |-> "mno345hash", content_preview |-> "preview005"],
     [document_id |-> "DOC006", department |-> "FINANCE", sensitivity |-> "internal",
      original_hash |-> "pqr678hash", current_hash |-> "pqr678hash", content_preview |-> "preview006"],
     [document_id |-> "DOC007", department |-> "LEGAL", sensitivity |-> "internal",
      original_hash |-> "stu901hash", current_hash |-> "stu901hash", content_preview |-> "preview007"],
     [document_id |-> "DOC008", department |-> "LEGAL", sensitivity |-> "confidential",
      original_hash |-> "vwx234hash", current_hash |-> "vwx234hash", content_preview |-> "preview008"],
     [document_id |-> "DOC009", department |-> "IT", sensitivity |-> "confidential",
      original_hash |-> "yza567hash", current_hash |-> "yza567hash", content_preview |-> "preview009"],
     [document_id |-> "DOC010", department |-> "IT", sensitivity |-> "internal",
      original_hash |-> "bcd890hash", current_hash |-> "bcd890hash", content_preview |-> "preview010"],
     [document_id |-> "DOC011", department |-> "HR", sensitivity |-> "public",
      original_hash |-> "efg123hash", current_hash |-> "efg123hash", content_preview |-> "preview011"] >>

\* Document(**doc_data): the columns not listed take their defaults
seeded_document(docs, data) ==
  [id |-> Len(docs) + 1,
   document_id |-> data.document_id,
   department |-> data.department,
   sensitivity |-> data.sensitivity,
   ml_predicted_sensitivity |-> "internal",
   ml_confidence |-> 0,
   sensitivity_mismatch |-> FALSE,
   original_hash |-> data.original_hash,
   current_hash |-> data.current_hash,
   full_content |-> None,
   original_content |-> None,
   content_preview |-> data.content_preview,
   is_tampered |-> FALSE,
   tamper_severity |-> "none"]

\* one turn of the loop over default_documents: setattr of every listed key on
\* an existing row, a new row otherwise
seed_one(docs, data) ==
  LET k == DocDbId(docs, data.document_id)
  IN  IF k # 0
      THEN [docs EXCEPT ![k] = [@ EXCEPT !.department = data.department,
                                         !.sensitivity = data.sensitivity,
                                         !.original_hash = data.original_hash,
                                         !.current_hash = data.current_hash,
                                         !.content_preview = data.content_preview]]
      ELSE Append(docs, seeded_document(docs, data))

RECURSIVE seed_from(_, _)
seed_from(docs, n) ==
  IF n > Len(default_documents) THEN docs
  ELSE seed_from(seed_one(docs, default_documents[n]), n + 1)

seed_demo_documents ==
  /\ WorkerSuspended
  /\ nreq.seed < MaxSeeds
  /\ nreq' = [nreq EXCEPT !.seed = @ + 1]
  /\ documents' = seed_from(documents, 1)
  /\ responses' = Append(responses, [kind |-> "seed", status |-> 200,
                                     qsize |-> qsize(queue), risk_level |-> None])
  /\ UNCHANGED <<caller_bc, verifier, fusion, now, wallclock, qvars, wvars, events, alerts, explanations, modifications,
                 hist_w, hist_api, wsvars, bcast_log, bg>>

(***************************************************************************)
(* POST /events/ingest (api/events.py)                                     *)
(***************************************************************************)
\* request bodies; document_content is validated as text by the request model
IngestRequests ==
  { [document_id |-> "DOC001", target_department |-> "Finance", action |-> "view",
     document_content |-> None],
    [document_id |-> "DOC001", target_department |-> "HR", action |-> "delete",
     document_content |-> None],
    [document_id |-> "DOC001", target_department |-> "Finance", action |-> "modify",
     document_content |-> "secret"],
    [document_id |-> "DOC001", target_department |-> "Finance", action |-> "rename",
     document_content |-> None] }

\* the UserEvent built from the token and the request body
IngestPayload(req, n) ==
  [seq |-> n, user_id |-> ApiUser, user_department |-> UserDepartment(ApiUser),
   document_id |-> req.document_id, target_department |-> req.target_department,
   action |-> req.action, document_content |-> req.document_content,
   ingested_at |-> now]

\* priority chosen by create_alert_from_result
ApiPriority(risk_level) ==
  IF risk_level = "critical" THEN "critical"
  ELSE IF risk_level = "high" THEN "high"
  ELSE "medium"

\* the handler up to its response: pipeline.run, the Event commit, the background tasks scheduled
ingest_event(req) ==
  /\ WorkerSuspended
  /\ nreq.ingest < MaxIngests
  /\ nreq' = [nreq EXCEPT !.ingest = @ + 1]
  /\ \E lime_ok \in BOOLEAN :
       LET p == IngestPayload(req, nreq.ingest + 1)
           out == run(hist_api, p, p.document_content, wallclock, lime_ok, now)
           r == out.result
           row == [WorkerEventRow(events, documents, p, r, now) EXCEPT !.via = "ingest",
                                                                  !.user_id = UserDbId(p.user_id)]
       IN  /\ (p.document_content = None => lime_ok)
           /\ hist_api' = out.hist
           /\ IF ~ActionTypeOk(req.action)
              THEN /\ responses' = Append(responses, [kind |-> "ingest", status |-> 500,
                                                      qsize |-> qsize(queue), risk_level |-> None])
                   /\ UNCHANGED <<events, bg>>
              ELSE /\ events' = Append(events, row)
                   /\ bg' = Append(bg, [event_db_id |-> row.id, payload |-> p, result |-> r])
                   /\ responses' = Append(responses, [kind |-> "ingest", status |-> 200,
                                                      qsize |-> qsize(queue),
                                                      risk_level |-> r.risk_level])
  /\ UNCHANGED <<caller_bc, verifier, fusion, now, wallclock, qvars, wvars, alerts, explanations, modifications, documents, hist_w, wsvars,
                 bcast_log>>

\* the background tasks of one request, in the order they were added:
\* store_document_modification, create_alert_from_result, store_explanation
ingest_background ==
  /\ WorkerSuspended
  /\ bg # <<>>
  /\ LET t == Head(bg)
         p == t.payload
         r == t.result
     IN  /\ IF modification_needed(p)
            THEN /\ modifications' = Append(modifications,
                                            [ModificationRow(documents, p, r) EXCEPT !.via = "ingest"])
                 /\ documents' = DocumentsAfterModify(documents, p.document_id,
                                                      p.document_content, r.risk_level)
            ELSE UNCHANGED <<modifications, documents>>
         /\ alerts' = IF r.requires_alert /\ UserDbId(p.user_id) # 0
                      THEN Append(alerts, AlertRow(alerts, t.event_db_id, p.user_id,
                                                   ApiPriority(r.risk_level), r.risk_score))
                      ELSE alerts
         /\ explanations' = IF explanation_needed(r)
                            THEN Append(explanations, ExplanationRow(t.event_db_id, r))
                            ELSE explanations
  /\ bg' = Tail(bg)
  /\ UNCHANGED <<caller_bc, verifier, fusion, now, wallclock, qvars, wvars, events, hist_w, hist_api, wsvars, bcast_log, responses, nreq>>

(***************************************************************************)
(* Alert handling by analysts (api/alerts.py)                              *)
(***************************************************************************)
\* AlertUpdate bodies: status and assigned_to are optional
AlertStatuses == {"open", "investigating", "resolved", "dismissed"}

AlertUpdates ==
  [status : AlertStatuses \cup {None, "closed"}, assigned_to : {None, "analyst"}]

\* alert ids a request can name: those of the alerts the uploads can raise, and one more
\* that never exists
AlertRefs == 1..(MaxUploads + 1)

\* datetime.utcnow() stored in resolved_at
Now == "utcnow"

alert_response(code) ==
  [kind |-> "alert", status |-> code, qsize |-> qsize(queue), risk_level |-> None]

\* PUT /alerts/{alert_id}
update_alert(a, update) ==
  /\ WorkerSuspended
  /\ nreq.alert < MaxAlertOps
  /\ nreq' = [nreq EXCEPT !.alert = @ + 1]
  /\ IF a > Len(alerts)
     THEN /\ responses' = Append(responses, alert_response(404))
          /\ UNCHANGED alerts
     ELSE IF update.status # None /\ update.status \notin AlertStatuses
     THEN /\ responses' = Append(responses, alert_response(400))
          /\ UNCHANGED alerts
     ELSE /\ alerts' = [alerts EXCEPT ![a] =
                 [@ EXCEPT !.status = IF update.status # None THEN update.status ELSE @,
                           !.resolved_at = IF update.status \in {"resolved", "dismissed"}
                                           THEN Now ELSE @,
                           !.assigned_to = IF update.assigned_to # None
                                           THEN update.assigned_to ELSE @]]
          /\ responses' = Append(responses, alert_response(200))
  /\ UNCHANGED <<caller_bc, verifier, fusion, now, wallclock, qvars, wvars, events, explanations, modifications, documents,
                 hist_w, hist_api, wsvars, bcast_log, bg>>

\* POST /alerts/{alert_id}/assign
assign_alert(a, assignee) ==
  /\ WorkerSuspended
  /\ nreq.alert < MaxAlertOps
  /\ nreq' = [nreq EXCEPT !.alert = @ + 1]
  /\ IF a > Len(alerts)
     THEN /\ responses' = Append(responses, alert_response(404))
          /\ UNCHANGED alerts
     ELSE /\ alerts' = [alerts EXCEPT ![a] = [@ EXCEPT !.assigned_to = assignee,
                                                      !.status = "investigating"]]
          /\ responses' = Append(responses, alert_response(200))
  /\ UNCHANGED <<caller_bc, verifier, fusion, now, wallclock, qvars, wvars, events, explanations, modifications, documents,
                 hist_w, hist_api, wsvars, bcast_log, bg>>

\* POST /alerts/{alert_id}/resolve
resolve_alert(a) ==
  /\ WorkerSuspended
  /\ nreq.alert < MaxAlertOps
  /\ nreq' = [nreq EXCEPT !.alert = @ + 1]
  /\ IF a > Len(alerts)
     THEN /\ responses' = Append(responses, alert_response(404))
          /\ UNCHANGED alerts
     ELSE /\ alerts' = [alerts EXCEPT ![a] = [@ EXCEPT !.status = "resolved",
                                                      !.resolved_at = Now]]
          /\ responses' = Append(responses, alert_response(200))
  /\ UNCHANGED <<caller_bc, verifier, fusion, now, wallclock, qvars, wvars, events, explanations, modifications, documents,
                 hist_w, hist_api, wsvars, bcast_log, bg>>

(***************************************************************************)
(* Shutdown (app.py, lifespan after the yield)                             *)
(***************************************************************************)
\* worker_task.cancel() and await worker_task.  The lifespan coroutine runs while the
\* worker is suspended: in "await event_queue.get()" (waiting on the empty queue,
\* or woken by a put and not yet resumed) or inside "await websocket.send_json()".  The
\* CancelledError is raised there; it is not an Exception, so broadcast does not
\* catch it, and the worker's "except asyncio.CancelledError" leaves the loop.
lifespan_shutdown ==
  /\ wpc \in {"get", "send"}
  /\ wpc' = "stopped"
  /\ wcur' = NoCur
  /\ bc' = NoBroadcast
  /\ UNCHANGED <<caller_bc, verifier, fusion, now, wallclock, qvars, dbvars, hist_w, hist_api, wsvars, bcast_log, apivars>>

(***************************************************************************)
(* A RiskFusionEngine called on its own (ml_engine/fusion/risk_engine.py)  *)
(***************************************************************************)
\* the dataclass: the fields compute_risk passes, and assessed_at, which the
\* default_factory datetime.utcnow fills in when the object is built
RiskAssessment(fields, assessed_at) == [fields |-> fields, assessed_at |-> assessed_at]

\* component scores in thousandths, custom weights and contexts given to the engine
FusionWeights ==
  {DEFAULT_WEIGHTS, [behavior |-> 100, classification |-> 100, integrity |-> 200],
   [behavior |-> 200, classification |-> 200, integrity |-> 400]}

FusionInputs ==
  [weights : {normalize_weights(w) : w \in FusionWeights}, behavior_score : {0, 600, 1000}, classification_score : {0, 800},
   integrity_score : {0, 300, 900}, action : Actions, is_cross_department : BOOLEAN,
   is_after_hours : BOOLEAN, is_weekend : BOOLEAN, out : {<<>>}]

\* an engine built with some weights on a Wednesday at 10:00, and the inputs it is
\* going to be called with
InitFusion ==
  /\ Started
  /\ hour(wallclock) = 10 /\ weekday(wallclock) = 2
  /\ fusion \in FusionInputs
  /\ verifier = NoVerifier

\* a call of compute_risk in the history of the engine: the RiskAssessment it
\* returned and the weights the engine had
Assessed(fields, assessed_at, weights) ==
  [fields |-> RiskAssessment(fields, assessed_at).fields,
   assessed_at |-> RiskAssessment(fields, assessed_at).assessed_at,
   weights |-> weights]

\* risk_engine.update_weights(new_weights): the engine's weights become the new
\* weights divided by their sum
risk_engine_update_weights(new_weights) ==
  /\ fusion.action # None
  /\ fusion' = [fusion EXCEPT !.weights = normalize_weights(new_weights)]
  /\ UNCHANGED <<caller_bc, verifier, now, wallclock, qvars, wvars, dbvars, hist_w, hist_api, wsvars, bcast_log,
                 apivars>>

\* one call risk_engine.compute_risk(...) with those inputs
risk_engine_compute_risk ==
  /\ fusion.action # None
  /\ Len(fusion.out) < MaxAssessments
  /\ fusion' = [fusion EXCEPT !.out =
                  Append(@, Assessed(
                              engine_compute_risk(fusion.weights, fusion.behavior_score,
                                                  fusion.classification_score,
                                                  fusion.integrity_score, fusion.action,
                                                  fusion.is_cross_department,
                                                  fusion.is_after_hours, fusion.is_weekend),
                              now, fusion.weights))]
  /\ UNCHANGED <<caller_bc, verifier, now, wallclock, qvars, wvars, dbvars, hist_w, hist_api, wsvars, bcast_log,
                 apivars>>

(***************************************************************************)
(* IntegrityVerifier (ml_engine/documents/integrity.py), called directly    *)
(***************************************************************************)
VerifierDocuments == {"DOC001", "DOC404"}

\* one call of register_document(document_id, content, filename)
integrity_verifier_register_document(document_id, content) ==
  /\ Len(verifier.registered) < MaxRegistrations
  /\ verifier' = [verifier EXCEPT
                    !.registry = register_document(@, document_id, content),
                    !.registered = Append(@, [document_id |-> document_id, content |-> content])]
  /\ UNCHANGED <<caller_bc, fusion, now, wallclock, qvars, wvars, dbvars, hist_w, hist_api, wsvars, bcast_log,
                 apivars>>

\* one call of verify_content(document_id, current_content) and of get_risk_score
\* on its result; after is the number of registrations made before the call
integrity_verifier_verify_content(document_id, content) ==
  /\ Len(verifier.checks) < MaxVerifications
  /\ LET res == verify_content(verifier.registry, document_id, content)
     IN  verifier' = [verifier EXCEPT
                        !.checks = Append(@, [document_id |-> document_id, content |-> content,
                                              after |-> Len(verifier.registered),
                                              result |-> res,
                                              integrity_score |-> integrity_risk_score(res)])]
  /\ UNCHANGED <<caller_bc, fusion, now, wallclock, qvars, wvars, dbvars, hist_w, hist_api, wsvars, bcast_log,
                 apivars>>

\* time passes, whatever the coroutines are doing
tick ==
  /\ now < MaxClock
  /\ now' = now + 1
  /\ wallclock' = (wallclock + 24 \div HOURS_24) % 168
  /\ UNCHANGED <<caller_bc, verifier, fusion, qvars, wvars, dbvars, hist_w, hist_api, wsvars, bcast_log, apivars>>

(***************************************************************************)
(* Specifications                                                          *)
(***************************************************************************)
\* The streaming path: producers, the worker and one dashboard session.
Next ==
  \/ \E shape \in PayloadShapes : Offer(shape, 1, MaxOffers)
  \/ ml_worker
  \/ websocket_admin_endpoint(1)

Spec == Init /\ [][Next]_vars

\* The broadcaster with several dashboard sessions.
BroadcastShapes == {s \in PayloadShapes : s.user_id = "USR001" /\ s.action \in {"view", "delete"}}

NextBroadcast ==
  \/ \E shape \in BroadcastShapes : Offer(shape, 1, MaxOffers)
  \/ ml_worker
  \/ \E w \in Sockets : websocket_admin_endpoint(w)

SpecBroadcast == Init /\ [][NextBroadcast]_vars

\* The HTTP handlers.
NextApi ==
  \/ \E req \in IngestRequests : ingest_event(req)
  \/ ingest_background
  \/ \E req \in UploadRequests : upload_document(req)

SpecApi == Init /\ [][NextApi]_vars

\* A burst of offers while the worker is busy sending to a dashboard session.
BurstShapes == {s \in PayloadShapes : s.action = "view"}

BurstSizes == {NEAR_CAPACITY + 2, maxsize, MaxBurst}

BurstRequests == {r \in IngestRequests : r.action = "view"}

NextBurst ==
  \/ \E shape \in BurstShapes, n \in BurstSizes : Offer(shape, n, MaxBurst)
  \/ ml_worker
  \/ ws_connect(1, "USR005")
  \/ ws_welcome(1)
  \/ ws_client_close(1)
  \/ ws_disconnect(1)
  \/ \E req \in BurstRequests : ingest_event(req)
  \/ ingest_background

SpecBurst == Init /\ [][NextBurst]_vars

(***************************************************************************)
(* Claims                                                                  *)
(***************************************************************************)
\* C1: handling an ingest request leaves the stored Events, Alerts, Explanations
\* and ModificationRecords, both behaviour histories and the broadcast log
\* unchanged; its only effect is one attempted enqueue.
C1_IngestOnlyEnqueues ==
  [][nreq'.ingest # nreq.ingest =>
       /\ UNCHANGED <<events, alerts, explanations, modifications, hist_w, hist_api, bcast_log>>
       /\ Len(admitted') + Len(rejected') = Len(admitted) + Len(rejected) + 1]_vars

\* an ingest request has been answered and the queue was never offered anything
C1_Witness ==
  /\ \E k \in 1..Len(responses) : responses[k].kind = "ingest" /\ responses[k].status = 200
  /\ \E k \in 1..Len(events) : events[k].via = "ingest"
  /\ admitted = <<>> /\ rejected = <<>>

\* C2: an ingest request that arrives while the queue holds more than 900 of its
\* 1000 places, or finds it full, is answered 503 and the queue is left as it was.
C2_AdmissionPolicy ==
  \A k \in 1..Len(responses) :
    (responses[k].kind = "ingest" /\ (is_queue_full(responses[k].qsize) \/ full(responses[k].qsize)))
      => responses[k].status = 503

\* an ingest request arrived while the queue held more than 900 payloads
C2_Witness ==
  \E k \in 1..Len(responses) :
    responses[k].kind = "ingest" /\ is_queue_full(responses[k].qsize)

\* the tags of the payloads waiting in the queue, head first
queued_tags == [k \in 1..Len(queue) |-> queue[k].seq]

\* C3: the queue never holds more than its capacity of 1000 payloads, and the
\* payloads taken by the worker followed by those still waiting are exactly the
\* admitted payloads in admission order (the worker takes them first-in first-out).
C3_BoundedFifo ==
  /\ qsize(queue) <= maxsize
  /\ taken \o queued_tags = admitted

\* the queue was filled to capacity, an offer was refused, and the worker has taken two payloads
C3_Witness ==
  /\ Len(admitted) = maxsize
  /\ rejected # <<>>
  /\ Len(taken) >= 2
  /\ qsize(queue) = maxsize - Len(taken)

\* the Event rows are the keys 1..Len(events)
stored(event_db_id) == event_db_id \in 1..Len(events)

\* the row the worker stored for the payload with this tag, if any
worker_event(tag) == {k \in 1..Len(events) : events[k].via = "worker" /\ events[k].tag = tag}

\* C4: the worker commits the Event row before anything that refers to it: in every
\* state each Alert, each Explanation, each message handed to the broadcaster or
\* delivered to a session names a stored Event, and each ModificationRecord written
\* by the worker belongs to a payload whose Event is stored.
C4_EventCommittedFirst ==
  /\ \A k \in 1..Len(alerts) : stored(alerts[k].event_id)
  /\ \A k \in 1..Len(explanations) : stored(explanations[k].event_id)
  /\ \A k \in 1..Len(modifications) :
       modifications[k].via = "worker" => worker_event(modifications[k].tag) # {}
  /\ \A k \in 1..Len(bcast_log) : stored(bcast_log[k].msg.ref)
  /\ \A w \in Sockets : \A k \in 1..Len(inbox[w]) :
       inbox[w][k].type \in {"new_event", "new_alert"} => stored(inbox[w][k].ref)
  /\ wcur.alert_id # 0 => wcur.event_db_id # 0
  /\ wpc \in {"create_alert", "store_explanation", "store_modification", "broadcast_event",
              "broadcast_alert", "task_done"} => stored(wcur.event_db_id)

\* the worker has written an Alert, an Explanation and a ModificationRecord, a
\* session has received the new_event message of that Event, and its new_alert
\* message has been handed to the broadcaster
C4_Witness ==
  /\ alerts # <<>>
  /\ explanations # <<>>
  /\ modifications # <<>>
  /\ \E a \in 1..Len(alerts) :
       /\ \E w \in Sockets : \E k \in 1..Len(inbox[w]) :
            inbox[w][k] = [type |-> "new_event", ref |-> alerts[a].event_id]
       /\ \E k \in 1..Len(bcast_log) :
            bcast_log[k].msg = [type |-> "new_alert", ref |-> alerts[a].event_id]
  /\ \E k \in 1..Len(done) : done[k].failed = "store_event"

\* the Alert rows that name this Event
alerts_of(event_db_id) == {k \in 1..Len(alerts) : alerts[k].event_id = event_db_id}

\* the handling of the request or payload that stored this Event has run to its end
settled(e) ==
  CASE e.via = "worker" -> \E k \in 1..Len(done) : done[k].seq = e.tag
    [] e.via = "ingest" -> \A k \in 1..Len(bg) : bg[k].event_db_id # e.id
    [] OTHER -> TRUE

\* C5: an Alert exists for an Event if and only if its scoring produced
\* requires_alert: once the Event is fully processed it has exactly one Alert when
\* requires_alert is true, and it never has one when requires_alert is false.
C5_AlertIffRequired ==
  \A k \in 1..Len(events) :
    /\ ~events[k].requires_alert => alerts_of(k) = {}
    /\ (events[k].requires_alert /\ settled(events[k])) => Cardinality(alerts_of(k)) = 1

\* the worker has finished an Event scored with requires_alert and stored its Alert
C5_Witness ==
  \E k \in 1..Len(events) :
    /\ events[k].via = "worker"
    /\ events[k].requires_alert
    /\ settled(events[k])
    /\ Cardinality(alerts_of(k)) = 1

\* C6: every stored Event, whichever path stored it, has 0 <= risk_score <= 1 and a
\* risk_level that is the bucket of its risk_score: critical from 0.8, high from 0.6,
\* medium from 0.4, low below.
C6_RiskLevelIsBucket ==
  \A k \in 1..Len(events) :
    /\ 0 <= events[k].risk_score
    /\ events[k].risk_score <= ONE
    /\ events[k].risk_level = RiskLevelOf(events[k].risk_score)

\* Events stored by the ingest handler and by the upload handler, the latter with a
\* risk score between two buckets' thresholds
C6_Witness ==
  /\ \E k \in 1..Len(events) : events[k].via = "ingest" /\ events[k].risk_score >= ALERT_THRESHOLD
  /\ \E k \in 1..Len(events) : events[k].via = "upload" /\ events[k].risk_score >= ALERT_THRESHOLD

\* The event loop runs every coroutine that is ready: the worker's next step is
\* taken whenever it stays possible (a send completes, a get returns once a payload waits).
FailureShapes == {s \in PayloadShapes : s.action \in {"view", "rename"}}

NextFair ==
  \/ \E shape \in FailureShapes : Offer(shape, 1, MaxOffers)
  \/ ml_worker
  \/ websocket_admin_endpoint(1)

SpecFair == InitWednesday /\ [][NextFair]_vars /\ WF_vars(ml_worker)

done_tags == [k \in 1..Len(done) |-> done[k].seq]

no_repeat(s) == \A i, j \in 1..Len(s) : s[i] = s[j] => i = j

\* each payload is taken once, marked done once after its processing, whatever its
\* outcome, and never put back on the queue
C7_DoneOnceNoRetry ==
  /\ no_repeat(taken)
  /\ no_repeat(done_tags)
  /\ \A k \in 1..Len(queue) : \A j \in 1..Len(taken) : queue[k].seq # taken[j]
  /\ done_tags = SubSeq(taken, 1, Len(done))
  /\ Len(done) = (IF wpc \in {"get", "take"} THEN Len(taken) ELSE Len(taken) - 1)
  /\ unfinished_tasks = Len(admitted) - Len(done)

\* C7: a failure while processing one event (Event persistence included) never
\* stops the worker and is never retried: the item is marked done exactly once,
\* is not put back or processed again, and every admitted payload is eventually taken.
C7_FailureNeverStopsWorker ==
  /\ []C7_DoneOnceNoRetry
  /\ \A n \in 1..MaxOffers :
       (\E k \in 1..Len(admitted) : admitted[k] = n) ~> (\E k \in 1..Len(taken) : taken[k] = n)

\* Event persistence failed for one payload, it was marked done, and the worker
\* has since taken the next payload and stored its Event
C7_Witness ==
  \E k \in 1..Len(done) :
    /\ done[k].failed = "store_event"
    /\ Len(taken) > k
    /\ worker_event(taken[k + 1]) # {}

\* C8: unless Event persistence itself failed, every payload the worker has finished
\* has its Event stored and its new_event message handed to the broadcaster: a
\* failing scoring step (behaviour, classification, integrity, explanation) is
\* replaced by its neutral result and does not abort the event.
C8_ScoringFailureNeutralised ==
  \A k \in 1..Len(done) :
    done[k].failed # "store_event" =>
      \E e \in worker_event(done[k].seq) :
        \E j \in 1..Len(bcast_log) : bcast_log[j].msg = [type |-> "new_event", ref |-> e]

\* the worker has finished a payload whose classification raised
C8_Witness ==
  \E k \in 1..Len(done) : done[k].failed = "scoring"

\* the session is open on both sides and registered with the manager
connected(w) ==
  /\ sock[w].alive
  /\ sock[w].pc \in {"welcome", "receive", "pong", "subscribed"}
  /\ w \in registered(conns)

\* the broadcast of this logged message is no longer running
broadcast_over(k) ==
  /\ ~(wpc = "send" /\ bc.msg = bcast_log[k].msg)
  /\ caller_bc.msg # bcast_log[k].msg

received(w, msg) == \E j \in 1..Len(inbox[w]) : inbox[w][j] = msg

\* C9: a session that fails or leaves during a broadcast never makes the broadcast
\* fail, and once a broadcast is over every session that was registered when it
\* began and is still connected has received its message.
C9_BroadcastSurvivesDeparture ==
  /\ ~(wpc = "error" /\ wcur.failed = "broadcast" /\ dict_len(conns) < bc.used)
  /\ \A k \in 1..Len(bcast_log) :
       broadcast_over(k) =>
         \A w \in bcast_log[k].audience : connected(w) => received(w, bcast_log[k].msg)

\* a broadcast to two registered sessions is running and one of them has left
C9_Witness ==
  /\ wpc = "send"
  /\ bc.used = 2
  /\ dict_len(conns) = 1
  /\ \E w \in Sockets : sock[w].pc = "gone"
  /\ \E w \in Sockets : connected(w)

new_event(e) == [type |-> "new_event", ref |-> e]

new_alert(e) == [type |-> "new_alert", ref |-> e]

\* the place of a message in the order the worker handed messages to the broadcaster
log_pos(msg) ==
  IF \E k \in 1..Len(bcast_log) : bcast_log[k].msg = msg
  THEN CHOOSE k \in 1..Len(bcast_log) : bcast_log[k].msg = msg
  ELSE 0

\* the session stays connected: its socket is open on both sides and its endpoint
\* is running
stays_connected(w) ==
  /\ sock[w].alive
  /\ sock[w].pc \in {"welcome", "receive", "pong", "subscribed"}

\* C10: for each Event the worker persisted and finished, every session registered
\* when its new_event was broadcast that stays connected has received new_event
\* and, if an Alert was created, new_alert; each session receives the worker's
\* messages in the worker's order, new_event before new_alert, and none twice.
C10_EachSessionOnceInOrder ==
  /\ \A w \in Sockets :
       /\ no_repeat(inbox[w])
       /\ \A i, j \in 1..Len(inbox[w]) :
            (i < j /\ inbox[w][i].type # "connection_established"
                   /\ inbox[w][j].type # "connection_established")
              => log_pos(inbox[w][i]) < log_pos(inbox[w][j])
  /\ \A e \in 1..Len(events) :
       (events[e].via = "worker" /\ settled(events[e])) =>
         /\ log_pos(new_event(e)) # 0
         /\ \A w \in bcast_log[log_pos(new_event(e))].audience :
              stays_connected(w) =>
                /\ received(w, new_event(e))
                /\ alerts_of(e) # {} => received(w, new_alert(e))

\* the worker has finished an Event with an Alert, its new_event and new_alert were
\* handed to the broadcaster with two sessions registered, and both sessions have
\* received new_event and stay connected
C10_Witness ==
  \E e \in 1..Len(events) :
    /\ settled(events[e])
    /\ alerts_of(e) # {}
    /\ log_pos(new_alert(e)) # 0
    /\ bcast_log[log_pos(new_alert(e))].audience = Sockets
    /\ \A w \in Sockets : stays_connected(w) /\ received(w, new_event(e))

\* Documents: uploads, re-seeding, and modify events arriving by both paths.
DocShapes == {s \in PayloadShapes : s.action = "modify"}

DocUploads == {r \in UploadRequests : r.department = "Finance" /\ r.sensitivity = "public"}

DocRequests == {r \in IngestRequests : r.action = "modify"}

NextDocs ==
  \/ \E shape \in DocShapes : Offer(shape, 1, MaxTakes - 1)
  \/ ml_worker
  \/ ws_connect(1, "USR005")
  \/ ws_welcome(1)
  \/ \E req \in DocUploads : upload_document(req)
  \/ seed_demo_documents
  \/ \E req \in DocRequests : ingest_event(req)
  \/ ingest_background

SpecDocs == InitWednesday /\ [][NextDocs]_vars

\* the document was the target of a stored modification
modified(k) ==
  \E m \in 1..Len(modifications) :
    /\ modifications[m].payload_document = documents[k].document_id
    /\ modifications[m].document_id = k

\* C11: for every Document, is_tampered is true if and only if its current hash
\* differs from its baseline (original) hash.
C11_TamperedIffHashDiffers ==
  \A k \in 1..Len(documents) :
    documents[k].is_tampered <=> (documents[k].current_hash # documents[k].original_hash)

\* a modified document whose content changed: flagged, and the hashes differ
C11_Witness ==
  \E k \in 1..Len(documents) :
    /\ modified(k)
    /\ documents[k].is_tampered
    /\ documents[k].current_hash # documents[k].original_hash

\* C12: the baseline (original) hash of an existing Document is never changed by
\* any later operation: modify events, later uploads, re-seeding.
C12_BaselineHashImmutable ==
  [][\A k \in 1..Len(documents) :
       k <= Len(documents') /\ documents'[k].original_hash = documents[k].original_hash]_vars

\* the demo documents were seeded over a table that already held an uploaded document
C12_Witness ==
  /\ nreq.seed > 0
  /\ \E k \in 1..Len(documents) :
       documents[k].original_content # None /\ DocNum(documents[k].document_id) <= Len(default_documents)

\* Alert triage: uploads that raise alerts, and the analysts' three handlers.
AlertUploads == {r \in UploadRequests : r.department = "HR"}

NextAlerts ==
  \/ \E req \in AlertUploads : upload_document(req)
  \/ \E a \in AlertRefs, update \in AlertUpdates : update_alert(a, update)
  \/ \E a \in AlertRefs : assign_alert(a, "analyst")
  \/ \E a \in AlertRefs : resolve_alert(a)

SpecAlerts == Init /\ [][NextAlerts]_vars

\* the moves of the transition graph open -> investigating -> {resolved, dismissed}
LegalMove(from, to) ==
  \/ from = to
  \/ from = "open" /\ to = "investigating"
  \/ from = "investigating" /\ to \in {"resolved", "dismissed"}

\* C13: the status of an Alert only moves along open -> investigating ->
\* {resolved, dismissed}: never out of a terminal status, never back to open,
\* never from open directly to a terminal status.
C13_StatusFollowsGraph ==
  [][\A k \in 1..Len(alerts) :
       k <= Len(alerts') /\ LegalMove(alerts[k].status, alerts'[k].status)]_vars

\* an alert that was assigned and then closed
C13_Witness ==
  \E k \in 1..Len(alerts) :
    /\ alerts[k].assigned_to # None
    /\ alerts[k].status \in {"resolved", "dismissed"}
    /\ alerts[k].resolved_at # None
    /\ nreq.alert = 2

\* C14: every successful ingest response is a stub whose risk_level is "pending",
\* never a scored risk level.
C14_IngestResponseIsStub ==
  \A k \in 1..Len(responses) :
    (responses[k].kind = "ingest" /\ responses[k].status = 200)
      => responses[k].risk_level = "pending"

\* an ingest request was answered successfully
C14_Witness ==
  \E k \in 1..Len(responses) :
    /\ responses[k].kind = "ingest"
    /\ responses[k].status = 200
    /\ responses[k].risk_level # None

\* The streaming path while time passes between admission and processing.
NextClock ==
  \/ \E shape \in FailureShapes : Offer(shape, 1, MaxOffers)
  \/ ml_worker
  \/ websocket_admin_endpoint(1)
  \/ tick

SpecClock == InitWednesday /\ [][NextClock]_vars

\* C15: the timestamp stored on an Event written by the worker is the time the
\* event was ingested, not the time the worker processed it, and the stored
\* timestamps order the events by arrival.
C15_TimestampIsIngestTime ==
  /\ \A k \in 1..Len(events) :
       events[k].via = "worker" => events[k].timestamp = events[k].ingested_at
  /\ \A j, k \in 1..Len(events) :
       (events[j].via = "worker" /\ events[k].via = "worker" /\ events[j].tag < events[k].tag)
         => events[j].timestamp <= events[k].timestamp

\* the worker stored an event that had waited in the queue while time passed
C15_Witness ==
  \E k \in 1..Len(events) :
    /\ events[k].via = "worker"
    /\ events[k].ingested_at < now
    /\ events[k].ingested_at = events[k].timestamp

\* The streaming path up to the shutdown of the service.
NextShutdown ==
  \/ \E shape \in BurstShapes : Offer(shape, 1, MaxOffers)
  \/ ml_worker
  \/ websocket_admin_endpoint(1)
  \/ lifespan_shutdown

SpecShutdown == Init /\ [][NextShutdown]_vars

\* C16: on shutdown the worker drains the queue: once the worker has stopped, no
\* payload that was in the queue at the shutdown signal is left unprocessed (the
\* service has no shutdown deadline that could expire first).
C16_ShutdownDrainsQueue ==
  wpc = "stopped" => (queue = <<>> /\ \A n \in 1..Len(admitted) : \E d \in 1..Len(done) : done[d].seq = admitted[n])

\* the service was shut down after the worker had processed an event
C16_Witness ==
  /\ wpc = "stopped"
  /\ done # <<>>
  /\ queue = <<>>

\* C17: every alert's priority is the risk-level bucket (critical, high, medium or
\* low) of the risk score of the event it is linked to, whichever path created it.
C17_PriorityIsBucketOfEventScore ==
  \A a \in 1..Len(alerts) :
    \A e \in 1..Len(events) :
      events[e].id = alerts[a].event_id => alerts[a].priority = RiskLevelOf(events[e].risk_score)

\* an alert exists whose priority is the bucket of its event's score
C17_Witness ==
  \E a \in 1..Len(alerts) :
    \E e \in 1..Len(events) :
      /\ events[e].id = alerts[a].event_id
      /\ alerts[a].priority = RiskLevelOf(events[e].risk_score)

\* a request body that carries a value outside one of the enumerations
InvalidEnumUpload(req) ==
  Upper(req.department) \notin DEPARTMENTS \/ Lower(req.sensitivity) \notin SensitivityLevels

InvalidEnumIngest(req) == req.action \notin Actions

ValidationErrors == 400..499

\* C18: a request carrying a value outside an enumeration (action, department,
\* sensitivity) is answered, by the handler that received it, with a 4xx status:
\* it is neither accepted nor answered with another error class.
C18_InvalidEnumRejected ==
  [][/\ \A req \in UploadRequests :
          (InvalidEnumUpload(req) /\ upload_document(req))
             => responses'[Len(responses')].status \in ValidationErrors
     /\ \A req \in IngestRequests :
          (InvalidEnumIngest(req) /\ ingest_event(req))
             => responses'[Len(responses')].status \in ValidationErrors]_vars

\* an upload to an unknown department was answered 400 and stored nothing
C18_Witness ==
  /\ \E n \in 1..Len(responses) : responses[n].kind = "upload" /\ responses[n].status = 400
  /\ nreq.upload = 1
  /\ documents = <<>>

\* Offers that bring the queue to its capacity, or one short of it, while the worker
\* is busy sending to a dashboard session.
\* A first payload keeps the worker busy; the burst that follows fills the queue.
BoundarySizes == {maxsize - 1, maxsize}

NextBoundary ==
  \/ \E shape \in BurstShapes : Offer(shape, 1, 1)
  \/ \E shape \in BurstShapes, n \in BoundarySizes : Offer(shape, n, MaxBurst)
  \/ ml_worker
  \/ ws_connect(1, "USR005")
  \/ ws_welcome(1)
  \/ ws_client_close(1)
  \/ ws_disconnect(1)
  \/ \E req \in BurstRequests : ingest_event(req)
  \/ ingest_background

SpecBoundary == Init /\ [][NextBoundary]_vars

\* C19: an ingest request that arrives when the queue holds exactly maxsize payloads
\* is answered with the admission error 503 and enqueues nothing; one that arrives
\* when the queue holds maxsize - 1 payloads is admitted: it is not refused and its
\* event joins the queue.
C19_QueueBoundary ==
  [][nreq'.ingest # nreq.ingest =>
       /\ qsize(queue) = maxsize =>
            /\ responses'[Len(responses')].status = 503
            /\ queue' = queue
       /\ qsize(queue) = maxsize - 1 =>
            /\ responses'[Len(responses')].status # 503
            /\ qsize(queue') = maxsize
            /\ Len(admitted') = Len(admitted) + 1]_vars

\* ingest requests were answered while the queue held exactly maxsize payloads
C19_Witness ==
  \E k \in 1..Len(responses) :
    responses[k].kind = "ingest" /\ responses[k].qsize = maxsize

\* C20: every ModificationRecord has chars_added >= 0, chars_removed >= 0 and
\* change_percent = (chars_added + chars_removed) / max(original_length, 1) * 100
\* (in thousandths of a percent), whatever the original and the modified content
\* are, an empty original included.
C20_ChangePercentFormula ==
  \A n \in 1..Len(modifications) :
    LET m == modifications[n]
        divisor == IF m.original_length >= 1 THEN m.original_length ELSE 1
    IN  /\ m.chars_added >= 0
        /\ m.chars_removed >= 0
        /\ m.change_percent = ((m.chars_added + m.chars_removed) * 100000) \div divisor

\* a ModificationRecord of a document with a baseline text, with characters both
\* added and removed
C20_Witness ==
  \E n \in 1..Len(modifications) :
    /\ modifications[n].original_length > 0
    /\ modifications[n].chars_added > 0
    /\ modifications[n].chars_removed > 0
    /\ modifications[n].change_percent > 0

\* Uploads to the caller's own department with every declared level and every text,
\* and the seeding of the demonstration documents.
SensitivityUploads ==
  { [department |-> "Finance", sensitivity |-> s, content |-> c] : s \in SensitivityLevels,
                                                                  c \in TextContents }

NextSensitivity ==
  \/ \E req \in SensitivityUploads : upload_document(req)
  \/ seed_demo_documents

SpecSensitivity == Init /\ [][NextSensitivity]_vars

\* C21: for every Document the sensitivity-mismatch flag is true if and only if the
\* declared sensitivity differs from the sensitivity the classifier predicted.
C21_MismatchIffDiffers ==
  \A k \in 1..Len(documents) :
    documents[k].sensitivity_mismatch
      <=> (documents[k].sensitivity # documents[k].ml_predicted_sensitivity)

\* an uploaded document declared public whose text the classifier rates confidential
C21_Witness ==
  \E k \in 1..Len(documents) :
    /\ documents[k].sensitivity = "public"
    /\ documents[k].ml_predicted_sensitivity = "confidential"
    /\ documents[k].sensitivity_mismatch

\* The engine called repeatedly with the same inputs while time passes.
NextFusion ==
  \/ risk_engine_compute_risk
  \/ \E new_weights \in FusionWeights : risk_engine_update_weights(new_weights)
  \/ tick

SpecFusion == InitFusion /\ [][NextFusion]_vars

\* C22: two calls of compute_risk with identical inputs return identical
\* RiskAssessments, whatever was computed before and whenever the calls are made.
C22_FusionDeterministic ==
  \A m, n \in 1..Len(fusion.out) :
    fusion.out[m].weights = fusion.out[n].weights => fusion.out[m] = fusion.out[n]

\* the engine was called twice with the same inputs, the second time later than the first
C22_Witness ==
  /\ Len(fusion.out) = 2
  /\ fusion.out[1].weights = fusion.out[2].weights
  /\ fusion.weights # fusion.out[2].weights
  /\ fusion.out[1].assessed_at < fusion.out[2].assessed_at

\* One dashboard session that also talks to the server while events are broadcast.
NextSession ==
  \/ \E shape \in BurstShapes : Offer(shape, 1, 1)
  \/ ml_worker
  \/ websocket_admin_endpoint(1)
  \/ \E type \in ClientMessageTypes : ws_receive(1, type)
  \/ ws_reply(1)
  \/ broadcast_alert
  \/ broadcast_event
  \/ broadcast_system_status
  \/ caller_send

SpecSession == Init /\ [][NextSession]_vars

ServerMessageTypes == {"connection_established", "new_event", "new_alert", "system_status", "pong"}

\* C23: every message the server sends to a session has a type among
\* connection_established, new_event, new_alert, system_status and pong, the
\* replies to the client's ping and subscribe included.
C23_MessageTypes ==
  \A w \in Sockets : \A j \in 1..Len(inbox[w]) : inbox[w][j].type \in ServerMessageTypes

\* a session has received its welcome, a broadcast and the reply to a ping
C23_Witness ==
  \E w \in Sockets :
    /\ \E j \in 1..Len(inbox[w]) : inbox[w][j].type = "connection_established"
    /\ \E j \in 1..Len(inbox[w]) : inbox[w][j].type = "new_event"
    /\ \E j \in 1..Len(inbox[w]) : inbox[w][j].type = "pong"

\* C24: the fusion result has requires_alert = true exactly when one of these
\* holds: the level is critical; the level is high with at least 2 risk factors;
\* the integrity score is above 0; the event is cross-department with sensitivity
\* score above 0.7 and action multiplier at least 1.5; the fused score is at least 0.4.
C24_RequiresAlertRule ==
  \A n \in 1..Len(fusion.out) :
    LET a == fusion.out[n].fields
    IN  a.requires_alert
          <=> \/ a.risk_level = "critical"
              \/ a.risk_level = "high" /\ Len(a.risk_factors) >= 2
              \/ fusion.integrity_score > 0
              \/ /\ a.is_cross_department
                 /\ fusion.classification_score > 700
                 /\ a.action_multiplier >= 15
              \/ a.risk_score >= 4000000

\* an assessment with requires_alert = true for an event without tampering
C24_Witness ==
  \E n \in 1..Len(fusion.out) :
    /\ fusion.out[n].fields.requires_alert
    /\ fusion.integrity_score = 0
    /\ fusion.out[n].fields.risk_level = "high"

\* the window of actor u in the worker's pipeline after a step that updated it:
\* the window before the step and the event the worker has just scored, of which
\* the entries that satisfy keep at the time of the update remain
window_after_update(before, seq, utcnow, keep(_, _)) ==
  SelectSeq(Append(before, HistoryEntry(seq, utcnow)), LAMBDA e : keep(e, utcnow))

not_older_than_24h(e, utcnow) == utcnow - e.timestamp <= HOURS_24

younger_than_24h(e, utcnow) == utcnow - e.timestamp < HOURS_24

\* a step that updates the window of u appends the event that the step scores, an
\* event the window did not hold while it was scored, and leaves the entries that
\* satisfy keep
window_updated(u, keep(_, _)) ==
  LET before == history_of(hist_w, u)
  IN  hist_w'[u] # before =>
        /\ wcur'.payload.user_id = u
        /\ \A k \in 1..Len(before) : before[k].seq # wcur'.payload.seq
        /\ hist_w'[u] = window_after_update(before, wcur'.payload.seq, now', keep)

\* C25: an event is appended to its actor's history window only after it has been
\* scored, and after every history update the window holds exactly that actor's
\* events that are not older than 24 hours: an event aged 24h less one tick is
\* kept and events older than 24h are evicted.
C25_WindowNotOlderThan24h ==
  [][\A u \in DOMAIN hist_w' : window_updated(u, not_older_than_24h)]_vars

\* C25 as the code has it: after every history update the window holds exactly
\* that actor's events that are less than 24 hours old, so that an event aged
\* exactly 24h is evicted as well.
C25_WindowYoungerThan24h ==
  [][\A u \in DOMAIN hist_w' : window_updated(u, younger_than_24h)]_vars

\* the worker has scored two events of one actor 24h apart and the window holds
\* the second only
C25_Witness ==
  /\ Len(taken) = 2
  /\ wpc = "store_event"
  /\ wcur.payload.user_id \in DOMAIN hist_w
  /\ hist_w[wcur.payload.user_id] = <<HistoryEntry(taken[2], HOURS_24)>>
  /\ \E k \in 1..Len(events) :
       /\ events[k].tag = taken[1]
       /\ events[k].payload_user = wcur.payload.user_id
       /\ events[k].timestamp = 0

\* C26: for any component scores, weights and time of day, a cross-department
\* download, modify, delete or share gets a fused score of at least 0.8 and the
\* level critical, a cross-department upload a fused score of at least 0.4, and so
\* every cross-department event whose action is not view has requires_alert true.
C26_CrossDepartmentFloor ==
  \A n \in 1..Len(fusion.out) :
    LET a == fusion.out[n].fields
    IN  fusion.is_cross_department =>
          /\ fusion.action \in {"download", "modify", "delete", "share"}
               => a.risk_score >= 8000000 /\ a.risk_level = "critical"
          /\ fusion.action = "upload" => a.risk_score >= 4000000
          /\ fusion.action # "view" => a.requires_alert

\* a cross-department download with all component scores 0 in business hours, and
\* its assessment
C26_Witness ==
  /\ fusion.is_cross_department
  /\ fusion.action = "download"
  /\ fusion.behavior_score = 0 /\ fusion.classification_score = 0 /\ fusion.integrity_score = 0
  /\ ~fusion.is_after_hours /\ ~fusion.is_weekend
  /\ Len(fusion.out) >= 1
  /\ fusion.out[1].fields.risk_score = 9000000

\* The integrity verifier on its own: baselines are registered and contents verified.
NextIntegrity ==
  \/ \E d \in VerifierDocuments, c \in TextContents : integrity_verifier_register_document(d, c)
  \/ \E d \in VerifierDocuments, c \in TextContents : integrity_verifier_verify_content(d, c)

SpecIntegrity == Init /\ [][NextIntegrity]_vars

\* the registrations of document d among the first n calls of register_document
registrations_of(d, n) == {k \in 1..n : verifier.registered[k].document_id = d}

\* C27: verification of content for a document id without registered baseline
\* reports hash_match = true, is_tampered = false and severity none, whatever the
\* content; a tamper (integrity score above 0) is reported only for a document
\* registered with register_document before the call, and only when the content
\* differs from the one registered last.
C27_UnregisteredNeverTampered ==
  \A n \in 1..Len(verifier.checks) :
    LET c == verifier.checks[n]
        regs == registrations_of(c.document_id, c.after)
    IN  /\ regs = {} => /\ c.result.hash_match
                        /\ ~c.result.is_tampered
                        /\ c.result.tamper_severity = "none"
        /\ (c.result.is_tampered \/ c.integrity_score > 0)
             => /\ regs # {}
                /\ \E k \in regs : /\ \A j \in regs : j <= k
                                   /\ verifier.registered[k].content # c.content

\* a document was verified before it was registered and once more after it was
\* registered with another content: the second verification reports a tamper
C27_Witness ==
  /\ Len(verifier.checks) = 2
  /\ verifier.checks[1].document_id = verifier.checks[2].document_id
  /\ verifier.checks[1].after = 0
  /\ verifier.checks[1].content # "memo"
  /\ verifier.checks[2].after >= 1
  /\ verifier.checks[2].result.is_tampered

\* C28: a session that has been accepted and has neither disconnected nor had a
\* send fail stays registered with the manager, so that it receives every later
\* broadcast, whatever other sessions do, also when the same actor opens a second
\* session or closes another of its sessions.
C28_SessionStaysRegistered ==
  \A w \in Sockets :
    sock[w].pc \in {"welcome", "receive", "pong", "subscribed"} /\ sock[w].alive
      => w \in registered(conns)

\* two sessions are open and both are registered
C28_Witness ==
  /\ \A w \in Sockets : sock[w].pc = "receive" /\ sock[w].alive
  /\ registered(conns) = Sockets

\* C29: the first message a session receives is connection_established: no
\* new_event or new_alert broadcast is delivered to a session before it, also when
\* a broadcast of the worker runs while connect is in progress.
C29_WelcomeFirst ==
  \A w \in Sockets : inbox[w] # <<>> => inbox[w][1].type = "connection_established"

\* a session has received its welcome and then the broadcast of an event
C29_Witness ==
  \E w \in Sockets :
    /\ Len(inbox[w]) >= 2
    /\ inbox[w][1].type = "connection_established"
    /\ inbox[w][2].type = "new_event"

\* the row references the actor and the document that the payload names
references_payload(row) ==
  /\ row.user_id \in 1..Len(default_users)
  /\ default_users[row.user_id] = row.payload_user
  /\ row.document_id \in 1..Len(documents)
  /\ documents[row.document_id].document_id = row.payload_document

\* C30: every Event and every modification record the worker stores references
\* the actor and the document named in the event payload: an event whose actor id
\* or document id is not found in the store is never recorded against another
\* actor or document.
C30_RowsReferencePayload ==
  /\ \A k \in 1..Len(events) : events[k].via = "worker" => references_payload(events[k])
  /\ \A k \in 1..Len(modifications) :
       modifications[k].via = "worker" => references_payload(modifications[k])

\* the worker has stored an Event and a modification record of a known actor on a
\* known document
C30_Witness ==
  /\ \E k \in 1..Len(events) : events[k].via = "worker" /\ references_payload(events[k])
  /\ \E k \in 1..Len(modifications) :
       modifications[k].via = "worker" /\ references_payload(modifications[k])

=============================================================================
